---- MODULE Spec2Model ----
(***************************************************************************)
(* A model of the mass-casualty dispatch simulator:                        *)
(*   - PatientModel          (simulator/environment/patient_model.py)      *)
(*   - SimulationEngine      (simulator/simulation_engine.py)              *)
(*   - SimulationManager     (backend/controllers/simulation_manager.py)   *)
(*                                                                         *)
(* Geometry is one-dimensional: a position is an integer on a line and     *)
(* stands for the (lat, lon) pair of the source.  Travel times are counted *)
(* in ticks, TicksPerMinute ticks to the minute, so that travel times of   *)
(* zero and of a fraction of a minute both occur.  A health is a double,   *)
(* held exactly (see PatientModel).  Python's None is the integer None.    *)
(***************************************************************************)
EXTENDS Integers, Sequences, FiniteSets, TLC

None == -1

\* ------------------------------------------------------------------------
\* Bounds of the model
\* ------------------------------------------------------------------------
MaxTime == 22          \* argument max_time_minutes of run()
PolicyWindow == 2      \* the policy returns a non-empty dict only in the first PolicyWindow minutes
MaxActions == 2        \* number of entries of one returned dict
MaxSims == 2           \* number of simulations created in the manager
MaxThreads == 2        \* number of worker threads the manager starts
MaxCalls == 4          \* number of control calls made on the manager
MaxSimSteps == 2       \* minutes an orchestrated engine is stepped
MaxInjuryTime == 25    \* minutes of update() given to one PatientModel
MaxUntreatedTime == 250  \* one-minute updates given to an untreated PatientModel
MaxPolicyAmbs == 2     \* ambulances of a state given to a baseline policy
MaxPolicyCas == 2      \* casualties of a state given to a baseline policy
MaxGenCalls == 3       \* calls made on the scenario generators
MaxLongTime == 262     \* argument max_time_minutes of a long run()
MaxLoads == 4          \* calls of start_simulation that load a scenario
EnvMaxTime == 3        \* argument max_time_minutes of MCIResponseEnv
MaxJobs == 2           \* calls of ProcessManager.create_job

\* ------------------------------------------------------------------------
\* Units
\* ------------------------------------------------------------------------
TicksPerMinute == 2
HealthFull == 1000

\* ------------------------------------------------------------------------
\* The scenario: hospitals, casualties and spawned ambulances
\* ------------------------------------------------------------------------
HospIds == {0, 1}
CasIds == {0, 1}
AmbIds == {0, 1}
NumCas == Cardinality(CasIds)
NumAmb == Cardinality(AmbIds)

\* ids are 0..n-1: the first id that names nothing
UnknownAmb == NumAmb
UnknownCas == NumCas
UnknownHosp == Cardinality(HospIds)

HospPos(h) == IF h = 0 THEN 0 ELSE 40
CasPos(c) == IF c = 0 THEN 40 ELSE 41

Abs(x) == IF x < 0 THEN -x ELSE x

\* routing.euclidean_travel_time: distance / speed * 60, here in ticks
euclidean_travel_time(p, q) == Abs(p - q)

\* ------------------------------------------------------------------------
\* PatientModel
\* ------------------------------------------------------------------------
\* Python floats are IEEE-754 doubles.  A double x occurring as a health is
\* held exactly as the pair [m, e] of integers with
\*     x = m / HealthFull + e / (125 * 2^62),
\* m the number of thousandths and e what rounding has added to it.  The
\* doubles met here lie in (-1, 1] and are multiples of 2^-62, and e stays
\* far below 2^59 = 125 * 2^62 / HealthFull.
F(m, e) == [m |-> m, e |-> e]

Zero == F(0, 0)
One == F(HealthFull, 0)
Half == F(HealthFull \div 2, 0)

\* the element of a singleton set.  An operand is bound as {f(x) : x \in {v}}
\* where it is used more than once, so that it is computed once.
The(S) == CHOOSE v \in S : TRUE

\* x < y, x <= 0 and x >= 2^-j on doubles
FLess(x, y) == x.m < y.m \/ (x.m = y.m /\ x.e < y.e)

FLeq(x, y) == ~FLess(y, x)

NonPositive(x) == FLeq(x, Zero)

GeqPow2(x, j) == x.m * 2^j > HealthFull \/ (x.m * 2^j = HealthFull /\ x.e >= 0)

\* bits of a double's 62-bit fixed-point form that lie below its 53-bit
\* significand: 10 - j for 2^-j <= x < 2^-(j-1), none below 2^-10
DroppedBits(x) ==
    IF ~GeqPow2(x, 10) THEN 0
    ELSE 10 - (CHOOSE j \in 0..10 : GeqPow2(x, j) /\ \A i \in 0..(j - 1) : ~GeqPow2(x, i))

\* 1/125 modulo 2^11
Inv125 == CHOOSE x \in 0..2047 : (125 * x) % 2048 = 1

\* round-to-nearest-even of an exactly computed sum or product to a double;
\* a result <= 0 is only ever tested for its sign
Rounded(x, r) ==
    LET Nm == ((x.e % 2^(r + 1)) * (Inv125 % 2^(r + 1))) % 2^(r + 1)
        low == Nm % 2^r
        odd == Nm \div 2^r = 1
        up == low > 2^(r - 1) \/ (low = 2^(r - 1) /\ odd)
    IN F(x.m, x.e + 125 * ((IF up THEN 2^r ELSE 0) - low))

RoundDouble(v) ==
    The({IF NonPositive(x) THEN x
         ELSE The({IF r = 0 THEN x ELSE Rounded(x, r) : r \in {DroppedBits(x)}}) :
            x \in {v}})

RECURSIVE Pow2Mod125(_)
Pow2Mod125(n) ==
    IF n = 0 THEN 1
    ELSE The({(h * h * (IF n % 2 = 1 THEN 2 ELSE 1)) % 125 : h \in {Pow2Mod125(n \div 2)}})

\* variant: decimal arithmetic, a literal denotes itself
Literal_decimal(k) == F(k, 0)

\* the double a decimal literal of k thousandths denotes (0.05 for k = 50)
Literal(k) ==
    The({The({F(k, 2^r * ((IF q > 62 THEN 125 ELSE 0) - q)) :
                 q \in {(k * Pow2Mod125(59 - r)) % 125}}) :
            r \in {DroppedBits(F(k, 0))}})

\* x * dt and x - y in double arithmetic; dt is a whole number of minutes
FMul(v, dt) == The({RoundDouble(F(x.m * dt, x.e * dt)) : x \in {v}})

FSub(v, w) == The({RoundDouble(F(x.m - y.m, x.e - y.e)) : x \in {v}, y \in {w}})

PatientInit(triage_level) ==
    [ triage |-> triage_level,
      time_since_injury |-> 0,
      treatment_status |-> "WAITING",
      health |-> IF triage_level = "BLACK" THEN Zero ELSE One,
      is_alive |-> triage_level # "BLACK" ]

\* variant: a waiting patient decays as slowly as one in an ambulance
DecayRate_enroute(triage, treatment_status) ==
    CASE triage = "RED" /\ treatment_status \in {"WAITING", "ENROUTE"} -> 20
      [] triage = "YELLOW" /\ treatment_status \in {"WAITING", "ENROUTE"} -> 1
      [] OTHER -> 0

\* variant: a GREEN patient decays too
DecayRate_green(triage, treatment_status) ==
    CASE triage = "RED" /\ treatment_status = "WAITING" -> 50
      [] triage = "RED" /\ treatment_status = "ENROUTE" -> 20
      [] triage = "YELLOW" /\ treatment_status = "WAITING" -> 2
      [] triage = "YELLOW" /\ treatment_status = "ENROUTE" -> 1
      [] triage = "GREEN" -> 1
      [] OTHER -> 0

\* the literal of the decay per minute, in thousandths; 0: no statement
\* changes the health
DecayRate(triage, treatment_status) ==
    CASE triage = "RED" /\ treatment_status = "WAITING" -> 50
      [] triage = "RED" /\ treatment_status = "ENROUTE" -> 20
      [] triage = "YELLOW" /\ treatment_status = "WAITING" -> 2
      [] triage = "YELLOW" /\ treatment_status = "ENROUTE" -> 1
      [] OTHER -> 0

\* self.health -= rate * delta_time_minutes
Decayed(p, dt) ==
    LET rate == DecayRate(p.triage, p.treatment_status)
    IN IF rate = 0 THEN p.health ELSE FSub(p.health, FMul(Literal(rate), dt))

\* variant: a dying patient keeps the health the subtraction gave
PatientUpdate_unclamped(p, dt) ==
    IF ~p.is_alive THEN p
    ELSE LET p1 == [p EXCEPT !.time_since_injury = @ + dt] IN
         IF p1.treatment_status = "DELIVERED" THEN p1
         ELSE The({LET tri == IF p1.triage = "YELLOW" /\ FLess(h, Half) THEN "RED"
                                ELSE p1.triage
                       p2 == [p1 EXCEPT !.health = h, !.triage = tri]
                   IN IF NonPositive(h)
                      THEN [p2 EXCEPT !.is_alive = FALSE]
                      ELSE p2 : h \in {Decayed(p1, dt)}})

PatientUpdate(p, dt) ==
    IF ~p.is_alive THEN p
    ELSE LET p1 == [p EXCEPT !.time_since_injury = @ + dt] IN
         IF p1.treatment_status = "DELIVERED" THEN p1
         ELSE The({LET tri == IF p1.triage = "YELLOW" /\ FLess(h, Half) THEN "RED"
                                ELSE p1.triage
                       p2 == [p1 EXCEPT !.health = h, !.triage = tri]
                   IN IF NonPositive(h)
                      THEN [p2 EXCEPT !.health = Zero, !.is_alive = FALSE]
                      ELSE p2 : h \in {Decayed(p1, dt)}})

\* variant: the hospital restores the patient's health
apply_treatment_heals(p, treatment_type) ==
    CASE treatment_type = "PICKUP" -> [p EXCEPT !.treatment_status = "ENROUTE"]
      [] treatment_type = "HOSPITAL" ->
            [p EXCEPT !.treatment_status = "DELIVERED",
                      !.health = IF p.is_alive THEN One ELSE @]
      [] OTHER -> p

apply_treatment(p, treatment_type) ==
    CASE treatment_type = "PICKUP" -> [p EXCEPT !.treatment_status = "ENROUTE"]
      [] treatment_type = "HOSPITAL" -> [p EXCEPT !.treatment_status = "DELIVERED"]
      [] OTHER -> p

\* ------------------------------------------------------------------------
\* SimulationEngine: construction
\* ------------------------------------------------------------------------
\* spawn_ambulances + _initialize_ambulances: ambulance 0 is based at
\* hospital 0, ambulance 1 is a field unit near the incident.
SpawnAmbulance(a) ==
    [ id |-> a,
      lat |-> IF a = 0 THEN HospPos(0) ELSE 41,
      status |-> "IDLE",
      base_hospital_id |-> IF a = 0 THEN 0 ELSE None,
      type |-> IF a = 0 THEN "HOSPITAL_BASED" ELSE "FIELD_UNIT",
      patient_onboard |-> None,
      target_lat |-> None,
      time_to_target |-> 0,
      destination_hospital_id |-> None,
      action_type |-> "None" ]

InitCasualty(c, triage) ==
    [ id |-> c,
      lat |-> CasPos(c),
      triage |-> triage,
      patient |-> PatientInit(triage),
      status |-> "WAITING",
      assigned_ambulance_id |-> None,
      pickup_time |-> None,
      delivery_time |-> None ]

\* SimulationEngine.__init__ for a scenario whose casualties have the
\* triage levels tri[c]
EngineInit(tri) ==
    [ current_time |-> 0,
      ambulances |-> [a \in AmbIds |-> SpawnAmbulance(a)],
      casualties |-> [c \in CasIds |-> InitCasualty(c, tri[c])],
      metrics |-> [ deaths |-> 0, transported |-> 0, total_casualties |-> NumCas,
                    casualties_waiting |-> 0, total_response_time |-> 0,
                    pickups |-> 0 ],
      event_log |-> << >>,
      raised |-> FALSE ]

\* the ids of the ambulances and of the casualties of an engine
AmbulanceIds(E) == DOMAIN E.ambulances

CasualtyIds(E) == DOMAIN E.casualties

\* variant: the newest event is put first
LogEvent_first(E, event_type, amb, cas, hosp) ==
    [E EXCEPT !.event_log = << [ type |-> event_type,
                                 time |-> E.current_time,
                                 ambulance_id |-> amb,
                                 casualty_id |-> cas,
                                 hospital_id |-> hosp ] >> \o @]

\* _log_event
LogEvent(E, event_type, amb, cas, hosp) ==
    [E EXCEPT !.event_log = Append(@, [ type |-> event_type,
                                        time |-> E.current_time,
                                        ambulance_id |-> amb,
                                        casualty_id |-> cas,
                                        hospital_id |-> hosp ])]

\* ------------------------------------------------------------------------
\* SimulationEngine: the phases of step()
\* ------------------------------------------------------------------------
\* body of the loop of _update_patient_health for casualty c
UpdateOneCasualty(E, c) ==
    LET cas == E.casualties[c] IN
    IF ~cas.patient.is_alive THEN E
    ELSE The({LET E1 == [E EXCEPT !.casualties[c].patient = p]
              IN IF p.is_alive THEN E1
                 ELSE LogEvent([E1 EXCEPT !.casualties[c].status = "DECEASED",
                                          !.metrics.deaths = @ + 1],
                               "DEATH", None, c, None) :
                 p \in {PatientUpdate(cas.patient, 1)}})

RECURSIVE HealthLoop(_, _)
HealthLoop(E, c) ==
    IF c \notin CasualtyIds(E) THEN E ELSE The({HealthLoop(E1, c + 1) : E1 \in {UpdateOneCasualty(E, c)}})

_update_patient_health(E) == HealthLoop(E, 0)

Moving == {"MOVING_TO_CASUALTY", "MOVING_TO_HOSPITAL", "MOVING_TO_LOCATION",
           "RETURNING_TO_BASE"}

_update_ambulance_movements(E) ==
    [E EXCEPT !.ambulances =
        [a \in AmbulanceIds(E) |->
            IF E.ambulances[a].status \in Moving
            THEN LET t == E.ambulances[a].time_to_target - TicksPerMinute
                 IN [E.ambulances[a] EXCEPT !.time_to_target = IF t > 0 THEN t ELSE 0]
            ELSE E.ambulances[a]]]

_execute_pickup(E, a) ==
    LET amb == E.ambulances[a]
        c == amb.patient_onboard
        cas == E.casualties[c]
        E1 == [E EXCEPT !.casualties[c].patient = apply_treatment(cas.patient, "PICKUP"),
                        !.casualties[c].status = "ENROUTE",
                        !.casualties[c].pickup_time = E.current_time,
                        !.metrics.total_response_time = @ + E.current_time,
                        !.metrics.pickups = @ + 1,
                        !.ambulances[a].lat = cas.lat]
        h == amb.destination_hospital_id
    IN IF h \notin HospIds
       THEN [E1 EXCEPT !.raised = TRUE]      \* next(...) raises StopIteration
       ELSE LogEvent([E1 EXCEPT !.ambulances[a].status = "MOVING_TO_HOSPITAL",
                                !.ambulances[a].target_lat = HospPos(h),
                                !.ambulances[a].time_to_target =
                                     euclidean_travel_time(cas.lat, HospPos(h))],
                     "PICKUP", a, c, None)

_execute_delivery(E, a) ==
    LET amb == E.ambulances[a]
        c == amb.patient_onboard
        cas == E.casualties[c]
        h == amb.destination_hospital_id
    IN IF h \notin HospIds
       THEN [E EXCEPT !.raised = TRUE]
       ELSE LogEvent([E EXCEPT !.casualties[c].patient = apply_treatment(cas.patient, "HOSPITAL"),
                               !.casualties[c].status = "DELIVERED",
                               !.casualties[c].delivery_time = E.current_time,
                               !.metrics.transported = @ + 1,
                               !.ambulances[a].lat = HospPos(h),
                               !.ambulances[a].status = "IDLE",
                               !.ambulances[a].patient_onboard = None,
                               !.ambulances[a].destination_hospital_id = None,
                               !.ambulances[a].target_lat = None,
                               !.ambulances[a].action_type = "None"],
                     "DELIVERY", a, c, h)

\* variant: every arrival ends the ambulance's task
ArriveOne_reposition(E, a) ==
    LET amb == E.ambulances[a] IN
    IF ~(amb.time_to_target <= 0 /\ amb.status # "IDLE") THEN E
    ELSE LogEvent([E EXCEPT !.ambulances[a].lat = amb.target_lat,
                            !.ambulances[a].status = "IDLE",
                            !.ambulances[a].target_lat = None,
                            !.ambulances[a].action_type = "None"],
                  "REPOSITIONED", a, None, None)

\* body of the loop of _check_arrivals for ambulance a
ArriveOne(E, a) ==
    LET amb == E.ambulances[a] IN
    IF ~(amb.time_to_target <= 0 /\ amb.status # "IDLE") THEN E
    ELSE CASE amb.status = "MOVING_TO_CASUALTY" -> _execute_pickup(E, a)
           [] amb.status = "MOVING_TO_HOSPITAL" -> _execute_delivery(E, a)
           [] OTHER ->
                LogEvent([E EXCEPT !.ambulances[a].lat = amb.target_lat,
                                   !.ambulances[a].status = "IDLE",
                                   !.ambulances[a].target_lat = None,
                                   !.ambulances[a].action_type = "None"],
                         "REPOSITIONED", a, None, None)

RECURSIVE ArrivalLoop(_, _)
ArrivalLoop(E, a) ==
    IF a \notin AmbulanceIds(E) \/ E.raised THEN E ELSE ArrivalLoop(ArriveOne(E, a), a + 1)

_check_arrivals(E) == ArrivalLoop(E, 0)

\* ------------------------------------------------------------------------
\* SimulationEngine: action execution
\* ------------------------------------------------------------------------
\* variant: the casualty's status is not validated
_action_dispatch_unvalidated(E, a, action) ==
    LET c == action.casualty_id
        h == action.hospital_id
    IN IF c \notin CasualtyIds(E) THEN E
       ELSE LogEvent([E EXCEPT !.casualties[c].status = "ASSIGNED",
                               !.casualties[c].assigned_ambulance_id = a,
                               !.ambulances[a].status = "MOVING_TO_CASUALTY",
                               !.ambulances[a].patient_onboard = c,
                               !.ambulances[a].destination_hospital_id = h,
                               !.ambulances[a].target_lat = E.casualties[c].lat,
                               !.ambulances[a].time_to_target =
                                    euclidean_travel_time(E.ambulances[a].lat,
                                                          E.casualties[c].lat),
                               !.ambulances[a].action_type = "DISPATCH_TO_CASUALTY"],
                     "DISPATCH", a, c, h)

_action_dispatch(E, a, action) ==
    LET c == action.casualty_id
        h == action.hospital_id
    IN IF c \notin CasualtyIds(E) \/ E.casualties[c].status # "WAITING" THEN E
       ELSE LogEvent([E EXCEPT !.casualties[c].status = "ASSIGNED",
                               !.casualties[c].assigned_ambulance_id = a,
                               !.ambulances[a].status = "MOVING_TO_CASUALTY",
                               !.ambulances[a].patient_onboard = c,
                               !.ambulances[a].destination_hospital_id = h,
                               !.ambulances[a].target_lat = E.casualties[c].lat,
                               !.ambulances[a].time_to_target =
                                    euclidean_travel_time(E.ambulances[a].lat,
                                                          E.casualties[c].lat),
                               !.ambulances[a].action_type = "DISPATCH_TO_CASUALTY"],
                     "DISPATCH", a, c, h)

\* variant: a missing target is taken to be the ambulance's own position
_action_move_to_location_unvalidated(E, a, action) ==
    LET t == IF action.target_lat = None THEN E.ambulances[a].lat ELSE action.target_lat
    IN LogEvent([E EXCEPT !.ambulances[a].status = "MOVING_TO_LOCATION",
                          !.ambulances[a].target_lat = t,
                          !.ambulances[a].time_to_target =
                               euclidean_travel_time(E.ambulances[a].lat, t),
                          !.ambulances[a].action_type = "MOVE_TO_LOCATION"],
                "MOVE_TO_LOCATION", a, None, None)

_action_move_to_location(E, a, action) ==
    IF action.target_lat = None THEN E
    ELSE LogEvent([E EXCEPT !.ambulances[a].status = "MOVING_TO_LOCATION",
                            !.ambulances[a].target_lat = action.target_lat,
                            !.ambulances[a].time_to_target =
                                 euclidean_travel_time(E.ambulances[a].lat,
                                                       action.target_lat),
                            !.ambulances[a].action_type = "MOVE_TO_LOCATION"],
                  "MOVE_TO_LOCATION", a, None, None)

_action_return_to_base(E, a) ==
    LET b == E.ambulances[a].base_hospital_id IN
    IF b = None THEN E
    ELSE IF b \notin HospIds THEN E
    ELSE LogEvent([E EXCEPT !.ambulances[a].status = "RETURNING_TO_BASE",
                            !.ambulances[a].target_lat = HospPos(b),
                            !.ambulances[a].time_to_target =
                                 euclidean_travel_time(E.ambulances[a].lat, HospPos(b)),
                            !.ambulances[a].action_type = "RETURN_TO_BASE"],
                  "RETURN_TO_BASE", a, None, b)

\* variant: the ambulance's status is not checked
ExecuteOne_any_status(E, ambulance_id, action) ==
    IF ambulance_id \notin AmbulanceIds(E) THEN E
    ELSE CASE action.action_type = "DISPATCH_TO_CASUALTY" ->
                  _action_dispatch(E, ambulance_id, action)
           [] action.action_type = "MOVE_TO_LOCATION" ->
                  _action_move_to_location(E, ambulance_id, action)
           [] action.action_type = "RETURN_TO_BASE" ->
                  _action_return_to_base(E, ambulance_id)
           [] OTHER -> E

\* body of the loop of _execute_actions for one (ambulance_id, action) item
ExecuteOne(E, ambulance_id, action) ==
    IF ambulance_id \notin AmbulanceIds(E) \/ E.ambulances[ambulance_id].status # "IDLE" THEN E
    ELSE CASE action.action_type = "DISPATCH_TO_CASUALTY" ->
                  _action_dispatch(E, ambulance_id, action)
           [] action.action_type = "MOVE_TO_LOCATION" ->
                  _action_move_to_location(E, ambulance_id, action)
           [] action.action_type = "RETURN_TO_BASE" ->
                  _action_return_to_base(E, ambulance_id)
           [] OTHER -> E

_update_metrics(E) ==
    [E EXCEPT !.metrics.casualties_waiting =
        Cardinality({c \in CasualtyIds(E) : E.casualties[c].status = "WAITING"
                                              /\ E.casualties[c].patient.is_alive})]

is_done(E) ==
    ~ \E c \in CasualtyIds(E) : E.casualties[c].patient.is_alive
                        /\ E.casualties[c].status \notin {"DELIVERED", "DECEASED"}

\* the state dict given to the policy
get_state(E) ==
    [ casualties |-> [c \in CasualtyIds(E) |->
          [ id |-> E.casualties[c].id,
            lat |-> E.casualties[c].lat,
            triage |-> E.casualties[c].triage,
            health |-> E.casualties[c].patient.health,
            is_alive |-> E.casualties[c].patient.is_alive,
            status |-> E.casualties[c].status,
            assigned_ambulance_id |-> E.casualties[c].assigned_ambulance_id ]],
      ambulances |-> [a \in AmbulanceIds(E) |->
          [ id |-> E.ambulances[a].id,
            lat |-> E.ambulances[a].lat,
            status |-> E.ambulances[a].status,
            base_hospital_id |-> E.ambulances[a].base_hospital_id,
            type |-> E.ambulances[a].type,
            patient_onboard |-> E.ambulances[a].patient_onboard ]],
      current_time |-> E.current_time ]

\* ------------------------------------------------------------------------
\* The policy: an arbitrary function of the state snapshot.  Its return
\* value is a dict, modelled as the sequence of its items in insertion
\* order; the keys of a dict are distinct.
\* ------------------------------------------------------------------------
PolicyKeys == AmbIds \cup {UnknownAmb}
PolicyCasualties == CasIds \cup {UnknownCas}
PolicyHospitals == {1, UnknownHosp}
MoveTargets == {40, None}

Act(t, c, h, target) ==
    [action_type |-> t, casualty_id |-> c, hospital_id |-> h, target_lat |-> target]

ActionMenu ==
    {Act("WAIT", None, None, None), Act("RETURN_TO_BASE", None, None, None)}
    \cup {Act("DISPATCH_TO_CASUALTY", c, 1, None) : c \in PolicyCasualties}
    \cup {Act("DISPATCH_TO_CASUALTY", 1, h, None) : h \in PolicyHospitals}
    \cup {Act("MOVE_TO_LOCATION", None, None, t) : t \in MoveTargets}

\* the action given for an id that names no ambulance is never read
PolicyItems ==
    (AmbIds \X ActionMenu)
    \cup {<<k, Act("DISPATCH_TO_CASUALTY", 1, 1, None)>> : k \in PolicyKeys \ AmbIds}

PolicyOutputs ==
    {s \in UNION {[1..n -> PolicyItems] : n \in 0..MaxActions} :
        \A i, j \in 1..Len(s) : i # j => s[i][1] # s[j][1]}

\* ------------------------------------------------------------------------
\* The baseline policies (simulator/agents/baselines.py).  A list of the
\* state dict is a sequence of records; a position stands for (lat, lon)
\* and the great-circle distance of two positions on the line is monotone
\* in their difference.
\* ------------------------------------------------------------------------
euclidean_distance(p, q) == Abs(p - q)

\* Python's order of two key tuples of two numbers
KeyLess(k1, k2) == k1[1] < k2[1] \/ (k1[1] = k2[1] /\ k1[2] < k2[2])

\* min(list, key=...) and sorted(list, key=...)[0]: the index of the first
\* element whose key is least
FirstMin(keys) ==
    CHOOSE i \in 1..Len(keys) :
        /\ \A j \in 1..Len(keys) : ~KeyLess(keys[j], keys[i])
        /\ \A j \in 1..(i - 1) : KeyLess(keys[i], keys[j])

\* variant: the chosen casualty stays in the list
Remove_nothing(list, x) == list

\* list.remove(x): the list without its first element equal to x
Remove(list, x) ==
    LET i == CHOOSE k \in 1..Len(list) : list[k] = x /\ \A j \in 1..(k - 1) : list[j] # x
    IN SubSeq(list, 1, i - 1) \o SubSeq(list, i + 1, Len(list))

\* actions[key] = value on a dict held as the sequence of its items
SetItem(items, key, value) ==
    IF \E i \in 1..Len(items) : items[i][1] = key
    THEN [i \in 1..Len(items) |-> IF items[i][1] = key THEN <<key, value>> ELSE items[i]]
    ELSE Append(items, <<key, value>>)

triage_priority(triage) ==
    CASE triage = "RED" -> 0
      [] triage = "YELLOW" -> 1
      [] triage = "GREEN" -> 2
      [] triage = "BLACK" -> 3
      [] OTHER -> 99

IdleAmbulances(state) == SelectSeq(state.ambulances, LAMBDA a : a.status = "IDLE")

\* variant: the casualties are not filtered
WaitingCasualties_all(state) == state.casualties

WaitingCasualties(state) ==
    SelectSeq(state.casualties, LAMBDA c : c.status = "WAITING" /\ c.is_alive)

\* variant: every policy takes the casualty nearest to the ambulance
CasualtyKey_distance(policy, ambulance, c) ==
    <<0, euclidean_distance(ambulance.pos, c.pos)>>

\* the key by which a policy orders the waiting casualties for one ambulance
CasualtyKey(policy, ambulance, c) ==
    IF policy = "nearest_hospital"
    THEN <<0, euclidean_distance(ambulance.pos, c.pos)>>
    ELSE <<triage_priority(c.triage), euclidean_distance(ambulance.pos, c.pos)>>

\* the casualty one idle ambulance is given; draw is the value random.choice draws
ChooseCasualty(policy, ambulance, waiting, draw) ==
    IF policy = "random"
    THEN waiting[(draw % Len(waiting)) + 1]
    ELSE waiting[FirstMin([i \in 1..Len(waiting) |-> CasualtyKey(policy, ambulance, waiting[i])])]

\* the hospitals a casualty may be sent to
MatchingHospitals(policy, hospitals, casualty) ==
    IF policy \in {"trauma_matching", "load_balancing"}
    THEN LET matching_hospitals ==
                 CASE casualty.triage = "RED" ->
                          SelectSeq(hospitals, LAMBDA h : h.trauma_level \in {1, 2})
                   [] casualty.triage = "YELLOW" ->
                          SelectSeq(hospitals, LAMBDA h : h.trauma_level \in {2, 3})
                   [] OTHER -> hospitals
         IN IF matching_hospitals = << >> THEN hospitals ELSE matching_hospitals
    ELSE hospitals

\* get_effective_load: hospital_load is zero for every hospital
get_effective_load(policy, current_assignments, hospital) ==
    IF policy = "load_balancing" THEN 0 + current_assignments[hospital.id] ELSE 0

ChooseHospital(policy, hospitals, casualty, current_assignments) ==
    LET m == MatchingHospitals(policy, hospitals, casualty)
    IN m[FirstMin([i \in 1..Len(m) |->
                      <<get_effective_load(policy, current_assignments, m[i]),
                        euclidean_distance(casualty.pos, m[i].pos)>>])]

\* variant: the assignments of the call are not counted
Count_nothing(policy, current_assignments, hospital) == current_assignments

\* current_assignments[id] = current_assignments.get(id, 0) + 1
Count(policy, current_assignments, hospital) ==
    IF policy = "load_balancing"
    THEN [current_assignments EXCEPT ![hospital.id] = @ + 1]
    ELSE current_assignments

\* the loop over the idle ambulances; k numbers its iterations
RECURSIVE PolicyLoop(_, _, _, _, _, _, _, _)
PolicyLoop(policy, state, idle, waiting, acts, current_assignments, draws, k) ==
    IF idle = << >> \/ waiting = << >> THEN acts
    ELSE The({The({The({PolicyLoop(policy, state, rest, left, acts1, counted, draws, k + 1) :
                          rest \in {Tail(idle)},
                          left \in {Remove(waiting, casualty)},
                          acts1 \in {SetItem(acts, ambulance.id,
                                             Act("DISPATCH_TO_CASUALTY", casualty.id,
                                                 hospital.id, None))},
                          counted \in {Count(policy, current_assignments, hospital)}}) :
                     hospital \in {ChooseHospital(policy, state.hospitals, casualty,
                                                  current_assignments)}}) :
                ambulance \in {Head(idle)},
                casualty \in {ChooseCasualty(policy, Head(idle), waiting, draws[k])}})

\* the dict a policy returns for a state; current_assignments starts empty
BaselinePolicy(policy, state, draws) ==
    PolicyLoop(policy, state, IdleAmbulances(state), WaitingCasualties(state), << >>,
               [h \in {state.hospitals[i].id : i \in 1..Len(state.hospitals)} |-> 0],
               draws, 1)

\* ------------------------------------------------------------------------
\* State of one engine run by SimulationEngine.run
\* ------------------------------------------------------------------------
VARIABLES
    engine,        \* the SimulationEngine object
    pc,            \* position in run() and step()
    actions,       \* the dict the policy returned in this step
    ai             \* index of the next item of actions to execute

\* State of the SimulationManager
VARIABLES
    simulations,   \* SimulationInstance objects, by id
    created,       \* ids handed out by create_simulation
    registry,      \* keys of SimulationManager.simulations
    threads,       \* worker threads: instance id and position in _run_simulation_loop
    calls,         \* number of control calls made so far
    last,          \* the dict the last control call returned
    emitted        \* the last (event, simulation_id) given to socketio.emit

\* State of one PatientModel object driven by its caller
VARIABLES
    patient,           \* the PatientModel object
    hospital_applied   \* apply_treatment('HOSPITAL') has been called on it

\* State of one caller of the baseline policies
VARIABLES
    baseline       \* the state dict passed, the policy called last and the dict it returned

\* State of the scenario generators
VARIABLES
    gens           \* ScenarioGenerator objects with the values their calls returned

\* State of the callers of _load_scenario, of one MCIResponseEnv and of one
\* ProcessManager
VARIABLES
    loader,        \* SimulationManager._hospitals_cache and what _load_scenario returned
    env,           \* MCIResponseEnv: the calls of step() and what the last one returned
    jobs           \* ProcessManager: the jobs, their subprocesses and their threads

evars == <<engine, pc, actions, ai>>

svars == <<loader, env, jobs>>

bvars == <<baseline>>

gvars == <<gens>>

pvars == <<patient, hospital_applied>>

mvars == <<simulations, created, registry, threads, calls, last, emitted>>

vars == <<engine, pc, actions, ai, simulations, created, registry, threads, calls, last, emitted,
          patient, hospital_applied, baseline, gens, loader, env, jobs>>

ScenarioTriages ==
    {tri \in [CasIds -> {"RED", "YELLOW", "GREEN", "BLACK"}] :
        tri[0] \in {"RED", "BLACK"} /\ tri[1] = "GREEN"}

\* the patient object is not used by a run of the engine or of the manager
PatientIdle ==
    /\ patient = PatientInit("GREEN")
    /\ hospital_applied = FALSE

\* no scenario has been loaded, no environment stepped and no job created
ServicesIdle ==
    /\ loader = [cache |-> << >>, returned |-> << >>]
    /\ env = [steps |-> 0, terminated |-> FALSE, truncated |-> FALSE]
    /\ jobs = << >>

\* no policy of baselines.py is called and no generator is constructed
\* by a run of the engine, of the manager or of a patient
OthersIdle ==
    /\ ServicesIdle
    /\ baseline = [state |-> [ambulances |-> << >>, casualties |-> << >>, hospitals |-> << >>],
                   policy |-> "none", result |-> << >>]
    /\ gens = << >>

EngineStart ==
    /\ engine \in {EngineInit(tri) : tri \in ScenarioTriages}
    /\ pc = "run"
    /\ actions = << >>
    /\ ai = 1

\* variant: the loop test admits current_time = max_time_minutes
RunTest_inclusive ==
    /\ UNCHANGED <<mvars, pvars, bvars, gvars, svars>>
    /\ pc = "run"
    /\ IF engine.current_time <= MaxTime /\ ~is_done(engine)
       THEN /\ pc' = "decay"
            /\ UNCHANGED engine
       ELSE /\ pc' = "done"
            /\ engine' = LogEvent(engine, "SIMULATION_END", None, None, None)
    /\ UNCHANGED <<actions, ai>>

\* run(): the test of the while loop, and the end of the run
RunTest ==
    /\ UNCHANGED <<mvars, pvars, bvars, gvars, svars>>
    /\ pc = "run"
    /\ IF engine.current_time < MaxTime /\ ~is_done(engine)
       THEN /\ pc' = "decay"
            /\ UNCHANGED engine
       ELSE /\ pc' = "done"
            /\ engine' = LogEvent(engine, "SIMULATION_END", None, None, None)
    /\ UNCHANGED <<actions, ai>>

\* step(), phase 1
StepDecay ==
    /\ UNCHANGED <<mvars, pvars, bvars, gvars, svars>>
    /\ pc = "decay"
    /\ engine' = _update_patient_health(engine)
    /\ pc' = "move"
    /\ UNCHANGED <<actions, ai>>

\* step(), phase 2
StepMove ==
    /\ UNCHANGED <<mvars, pvars, bvars, gvars, svars>>
    /\ pc = "move"
    /\ engine' = _update_ambulance_movements(engine)
    /\ pc' = "arrive"
    /\ UNCHANGED <<actions, ai>>

\* step(), phase 3; an exception leaves step() and run()
StepArrive ==
    /\ UNCHANGED <<mvars, pvars, bvars, gvars, svars>>
    /\ pc = "arrive"
    /\ engine' = _check_arrivals(engine)
    /\ pc' = IF engine'.raised THEN "raised" ELSE "policy"
    /\ UNCHANGED <<actions, ai>>

\* step(), phase 4: actions = self.policy(state)
StepPolicy ==
    /\ UNCHANGED <<mvars, pvars, bvars, gvars, svars>>
    /\ pc = "policy"
    /\ \E out \in (IF engine.current_time < PolicyWindow THEN PolicyOutputs ELSE {<< >>}) :
          /\ actions' = out
          /\ pc' = IF out = << >> THEN "metrics" ELSE "exec"
    /\ ai' = 1
    /\ UNCHANGED engine

\* step(), phase 5: one iteration of the loop of _execute_actions
StepExecute ==
    /\ UNCHANGED <<mvars, pvars, bvars, gvars, svars>>
    /\ pc = "exec"
    /\ engine' = ExecuteOne(engine, actions[ai][1], actions[ai][2])
    /\ ai' = ai + 1
    /\ pc' = IF ai = Len(actions) THEN "metrics" ELSE "exec"
    /\ UNCHANGED actions

\* step(), phase 6
StepMetrics ==
    /\ UNCHANGED <<mvars, pvars, bvars, gvars, svars>>
    /\ pc = "metrics"
    /\ engine' = _update_metrics(engine)
    /\ pc' = "tick"
    /\ actions' = << >>
    /\ ai' = 1

\* run(): self.current_time += 1
RunTick ==
    /\ UNCHANGED <<mvars, pvars, bvars, gvars, svars>>
    /\ pc = "tick"
    /\ engine' = [engine EXCEPT !.current_time = @ + 1]
    /\ pc' = "run"
    /\ UNCHANGED <<actions, ai>>

EngineNext ==
    \/ RunTest
    \/ StepDecay
    \/ StepMove
    \/ StepArrive
    \/ StepPolicy
    \/ StepExecute
    \/ StepMetrics
    \/ RunTick


\* ------------------------------------------------------------------------
\* SimulationEngine.step as one call (the orchestrator's worker calls it)
\* ------------------------------------------------------------------------
RECURSIVE ExecuteLoop(_, _, _)
ExecuteLoop(E, acts, i) ==
    IF i > Len(acts) THEN E
    ELSE ExecuteLoop(ExecuteOne(E, acts[i][1], acts[i][2]), acts, i + 1)

_execute_actions(E, acts) == ExecuteLoop(E, acts, 1)

\* out is what the policy returns; policy_raises: the policy raises instead
step(E, out, policy_raises) ==
    LET E3 == _check_arrivals(_update_ambulance_movements(_update_patient_health(E)))
    IN IF E3.raised THEN E3
       ELSE IF policy_raises THEN [E3 EXCEPT !.raised = TRUE]
       ELSE _update_metrics(_execute_actions(E3, out))

\* ------------------------------------------------------------------------
\* SimulationManager
\* ------------------------------------------------------------------------
SimIds == 1..MaxSims
UnknownSim == MaxSims + 1          \* an id that is never in the registry
ThreadIds == 1..MaxThreads
max_time == 180

\* a speed is a Python float: an integer here, or NaN, which float() makes
\* of the request's "nan" and which compares false with everything
NaN == -2
FloatLeq(x, y) == x # NaN /\ y # NaN /\ x <= y
FloatGt(x, y) == x # NaN /\ y # NaN /\ x > y

SpeedInputs == {0, 100, 101, NaN}

\* what the policy of an orchestrated engine returns in one step
MgrPolicyOutputs ==
    { << >>,
      << <<1, Act("DISPATCH_TO_CASUALTY", 1, UnknownHosp, None)>> >> }

\* the scenarios _load_scenario yields, by the triage of their casualties
MgrScenario == [c \in CasIds |-> IF c = 0 THEN "BLACK" ELSE "GREEN"]
MgrScenarios == {MgrScenario, [c \in CasIds |-> "BLACK"]}


\* SimulationInstance.__init__; engine is << >> for None, <<E>> for an engine
NewInstance ==
    [ status |-> "CREATED",
      engine |-> << >>,
      thread |-> None,
      speed |-> 1,
      error_message |-> "" ]

Result(ok, err) == [success |-> ok, error |-> err]

ManagerInit ==
    /\ simulations = [i \in SimIds |-> NewInstance]
    /\ created = {}
    /\ registry = {}
    /\ threads = [t \in ThreadIds |-> [sim |-> None, pc |-> "unstarted"]]
    /\ calls = 0
    /\ last = Result(TRUE, "")
    /\ emitted = <<"none", None>>

\* one more control call is made (the engine run by run() is another program)
Called ==
    /\ calls < MaxCalls
    /\ calls' = calls + 1
    /\ UNCHANGED <<evars, pvars, bvars, gvars, svars>>

Emit(event, id) == emitted' = <<event, id>>

\* the threads that have been started
Started == {t \in ThreadIds : threads[t].pc # "unstarted"}

\* is_alive() of a thread
ThreadAlive(t) == threads[t].pc \notin {"unstarted", "dead"}

create_simulation ==
    /\ created # SimIds
    /\ LET id == CHOOSE i \in SimIds \ created : \A j \in SimIds \ created : i <= j
       IN /\ simulations' = [simulations EXCEPT ![id] = NewInstance]
          /\ created' = created \cup {id}
          /\ registry' = registry \cup {id}
          /\ last' = Result(TRUE, "")
          /\ Called
    /\ UNCHANGED <<threads, emitted>>

NotFound(id) ==
    /\ id \notin registry
    /\ last' = Result(FALSE, "Simulation not found")
    /\ Called
    /\ UNCHANGED <<simulations, created, registry, threads, emitted>>

start_simulation(id) ==
    \/ NotFound(id)
    \/ /\ id \in registry
       /\ simulations[id].status \in {"RUNNING", "COMPLETED"}
       /\ last' = Result(FALSE, "Simulation is running or completed")
       /\ Called
       /\ UNCHANGED <<simulations, created, registry, threads, emitted>>
    \/ /\ id \in registry
       /\ simulations[id].status \notin {"RUNNING", "COMPLETED"}
       \* _load_scenario or _get_policy raises
       /\ simulations' = [simulations EXCEPT ![id].status = "ERROR",
                                             ![id].error_message = "start failed"]
       /\ last' = Result(FALSE, "start failed")
       /\ Called
       /\ UNCHANGED <<created, registry, threads, emitted>>
    \/ /\ id \in registry
       /\ simulations[id].status \notin {"RUNNING", "COMPLETED"}
       /\ Started # ThreadIds
       /\ LET t == CHOOSE u \in ThreadIds \ Started : \A v \in ThreadIds \ Started : u <= v
          IN /\ \E tri \in MgrScenarios :
                   simulations' = [simulations EXCEPT ![id].engine = <<EngineInit(tri)>>,
                                                      ![id].status = "RUNNING",
                                                      ![id].thread = t]
             /\ threads' = [threads EXCEPT ![t] = [sim |-> id, pc |-> "entry"]]
       /\ Emit("simulation:started", id)
       /\ last' = Result(TRUE, "")
       /\ Called
       /\ UNCHANGED <<created, registry>>

\* variant: the status is not checked before pausing
pause_simulation_unchecked(id) ==
    \/ NotFound(id)
    \/ /\ id \in registry
       /\ simulations' = [simulations EXCEPT ![id].status = "PAUSED"]
       /\ Emit("simulation:paused", id)
       /\ last' = Result(TRUE, "")
       /\ Called
       /\ UNCHANGED <<created, registry, threads>>

pause_simulation(id) ==
    \/ NotFound(id)
    \/ /\ id \in registry
       /\ simulations[id].status # "RUNNING"
       /\ last' = Result(FALSE, "Simulation is not running")
       /\ Called
       /\ UNCHANGED <<simulations, created, registry, threads, emitted>>
    \/ /\ id \in registry
       /\ simulations[id].status = "RUNNING"
       /\ simulations' = [simulations EXCEPT ![id].status = "PAUSED"]
       /\ Emit("simulation:paused", id)
       /\ last' = Result(TRUE, "")
       /\ Called
       /\ UNCHANGED <<created, registry, threads>>

resume_simulation(id) ==
    \/ NotFound(id)
    \/ /\ id \in registry
       /\ simulations[id].status # "PAUSED"
       /\ last' = Result(FALSE, "Simulation is not paused")
       /\ Called
       /\ UNCHANGED <<simulations, created, registry, threads, emitted>>
    \/ /\ id \in registry
       /\ simulations[id].status = "PAUSED"
       /\ simulations' = [simulations EXCEPT ![id].status = "RUNNING"]
       /\ Emit("simulation:resumed", id)
       /\ last' = Result(TRUE, "")
       /\ Called
       /\ UNCHANGED <<created, registry, threads>>

\* the join with a timeout returns whether or not the worker has exited
stop_simulation(id) ==
    \/ NotFound(id)
    \/ /\ id \in registry
       /\ simulations[id].status \in {"STOPPED", "COMPLETED"}
       /\ last' = Result(FALSE, "Simulation already stopped or completed")
       /\ Called
       /\ UNCHANGED <<simulations, created, registry, threads, emitted>>
    \/ /\ id \in registry
       /\ simulations[id].status \notin {"STOPPED", "COMPLETED"}
       /\ simulations' = [simulations EXCEPT ![id].status = "STOPPED"]
       /\ Emit("simulation:stopped", id)
       /\ last' = Result(TRUE, "")
       /\ Called
       /\ UNCHANGED <<created, registry, threads>>

delete_simulation(id) ==
    \/ NotFound(id)
    \/ /\ id \in registry
       /\ IF simulations[id].status \in {"RUNNING", "PAUSED"}
          THEN /\ simulations' = [simulations EXCEPT ![id].status = "STOPPED"]
               /\ Emit("simulation:stopped", id)
          ELSE UNCHANGED <<simulations, emitted>>
       /\ registry' = registry \ {id}
       /\ last' = Result(TRUE, "")
       /\ Called
       /\ UNCHANGED <<created, threads>>

set_speed(id, speed) ==
    \/ NotFound(id)
    \/ /\ id \in registry
       /\ (FloatLeq(speed, 0) \/ FloatGt(speed, 100))
       /\ last' = Result(FALSE, "Speed must be between 0 and 100")
       /\ Called
       /\ UNCHANGED <<simulations, created, registry, threads, emitted>>
    \/ /\ id \in registry
       /\ ~(FloatLeq(speed, 0) \/ FloatGt(speed, 100))
       /\ simulations' = [simulations EXCEPT ![id].speed = speed]
       /\ last' = Result(TRUE, "")
       /\ Called
       /\ UNCHANGED <<created, registry, threads, emitted>>

\* ------------------------------------------------------------------------
\* _run_simulation_loop, run by worker thread t for the instance threads[t].sim
\* ------------------------------------------------------------------------
Goto(t, where) ==
    /\ threads' = [threads EXCEPT ![t].pc = where]
    /\ UNCHANGED <<evars, pvars, bvars, gvars, svars>>

\* instance = self.get_simulation(simulation_id)
WorkerEntry(t) ==
    /\ threads[t].pc = "entry"
    /\ LET i == threads[t].sim IN
       IF i \notin registry \/ simulations[i].engine = << >>
       THEN Goto(t, "dead")
       ELSE Goto(t, "while")
    /\ UNCHANGED <<simulations, created, registry, calls, last, emitted>>

\* while instance.status == SimulationStatus.RUNNING
WorkerWhile(t) ==
    /\ threads[t].pc = "while"
    /\ IF simulations[threads[t].sim].status = "RUNNING"
       THEN Goto(t, "check")
       ELSE Goto(t, "finish")
    /\ UNCHANGED <<simulations, created, registry, calls, last, emitted>>

\* if instance.engine.is_done() or instance.engine.current_time >= max_time: break
WorkerCheck(t) ==
    /\ threads[t].pc = "check"
    /\ LET E == simulations[threads[t].sim].engine[1] IN
       IF is_done(E) \/ E.current_time >= max_time
       THEN Goto(t, "finish")
       ELSE Goto(t, "step")
    /\ UNCHANGED <<simulations, created, registry, calls, last, emitted>>

\* instance.engine.step()
WorkerStep(t) ==
    /\ threads[t].pc = "step"
    /\ LET i == threads[t].sim
           E == simulations[i].engine[1]
       IN /\ E.current_time < MaxSimSteps
          /\ \E out \in MgrPolicyOutputs, policy_raises \in BOOLEAN :
                LET E1 == step(E, out, policy_raises) IN
                /\ simulations' = [simulations EXCEPT ![i].engine = <<E1>>]
                /\ Goto(t, IF E1.raised THEN "except" ELSE "tick")
    /\ UNCHANGED <<created, registry, calls, last, emitted>>

\* current_time += 1, the timestep broadcast and the sleep; time.sleep
\* raises ValueError for 1.0 / NaN
WorkerTick(t) ==
    /\ threads[t].pc = "tick"
    /\ LET i == threads[t].sim IN
       /\ simulations' = [simulations EXCEPT ![i].engine[1].current_time = @ + 1]
       /\ IF i \in registry
          THEN Emit("simulation:timestep", i)
          ELSE UNCHANGED emitted
       /\ Goto(t, IF simulations[i].speed = NaN THEN "except" ELSE "while")
    /\ UNCHANGED <<created, registry, calls, last>>

\* if instance.status != SimulationStatus.STOPPED
WorkerFinish(t) ==
    /\ threads[t].pc = "finish"
    /\ IF simulations[threads[t].sim].status # "STOPPED"
       THEN Goto(t, "complete")
       ELSE Goto(t, "dead")
    /\ UNCHANGED <<simulations, created, registry, calls, last, emitted>>

\* instance.status = SimulationStatus.COMPLETED
WorkerComplete(t) ==
    /\ threads[t].pc = "complete"
    /\ LET i == threads[t].sim IN
       /\ simulations' = [simulations EXCEPT ![i].status = "COMPLETED"]
       /\ Emit("simulation:completed", i)
    /\ Goto(t, "dead")
    /\ UNCHANGED <<created, registry, calls, last>>

\* variant: the handler marks every registered simulation as failed
WorkerExcept_all(t) ==
    /\ threads[t].pc = "except"
    /\ LET i == threads[t].sim IN
       /\ simulations' = [j \in SimIds |->
                             IF j = i \/ j \in registry
                             THEN [simulations[j] EXCEPT !.status = "ERROR",
                                                         !.error_message = "step raised"]
                             ELSE simulations[j]]
       /\ Emit("simulation:error", i)
    /\ Goto(t, "dead")
    /\ UNCHANGED <<created, registry, calls, last>>

\* except Exception as e
WorkerExcept(t) ==
    /\ threads[t].pc = "except"
    /\ LET i == threads[t].sim IN
       /\ simulations' = [simulations EXCEPT ![i].status = "ERROR",
                                             ![i].error_message = "step raised"]
       /\ Emit("simulation:error", i)
    /\ Goto(t, "dead")
    /\ UNCHANGED <<created, registry, calls, last>>

MgrNext ==
    \/ create_simulation
    \/ \E id \in SimIds \cup {UnknownSim} :
          \/ start_simulation(id)
          \/ pause_simulation(id)
          \/ resume_simulation(id)
          \/ stop_simulation(id)
          \/ delete_simulation(id)
          \/ \E speed \in SpeedInputs : set_speed(id, speed)
    \/ \E t \in ThreadIds :
          \/ WorkerEntry(t)
          \/ WorkerWhile(t)
          \/ WorkerCheck(t)
          \/ WorkerStep(t)
          \/ WorkerTick(t)
          \/ WorkerFinish(t)
          \/ WorkerComplete(t)
          \/ WorkerExcept(t)

MgrInit ==
    /\ engine = EngineInit(MgrScenario)
    /\ pc = "run"
    /\ actions = << >>
    /\ ai = 1
    /\ ManagerInit
    /\ PatientIdle
    /\ OthersIdle

MgrSpec == MgrInit /\ [][MgrNext]_vars

\* ------------------------------------------------------------------------
\* One PatientModel object and a caller that applies update and
\* apply_treatment to it in any order
\* ------------------------------------------------------------------------
Triages == {"RED", "YELLOW", "GREEN", "BLACK"}
DeltaTimes == {0, 1, 5}
TreatmentTypes == {"PICKUP", "HOSPITAL", "SURGERY"}

PatientStart ==
    /\ patient \in {PatientInit(t) : t \in Triages}
    /\ hospital_applied = FALSE

\* patient.update(delta_time_minutes)
CallUpdate(dt) ==
    /\ patient.time_since_injury + dt <= MaxInjuryTime
    /\ patient' = PatientUpdate(patient, dt)
    /\ UNCHANGED <<hospital_applied, evars, mvars, bvars, gvars, svars>>

\* patient.apply_treatment(treatment_type)
CallApplyTreatment(treatment_type) ==
    /\ patient' = apply_treatment(patient, treatment_type)
    /\ hospital_applied' = (hospital_applied \/ treatment_type = "HOSPITAL")
    /\ UNCHANGED <<evars, mvars, bvars, gvars, svars>>

PatientNext ==
    \/ \E dt \in DeltaTimes : CallUpdate(dt)
    \/ \E treatment_type \in TreatmentTypes : CallApplyTreatment(treatment_type)

PatientSpecInit ==
    /\ engine = EngineInit(MgrScenario)
    /\ pc = "run"
    /\ actions = << >>
    /\ ai = 1
    /\ ManagerInit
    /\ PatientStart
    /\ OthersIdle

PatientSpec == PatientSpecInit /\ [][PatientNext]_vars

\* ------------------------------------------------------------------------
\* One PatientModel object that is never treated and is updated one minute
\* at a time (the loops of Test 1 and Test 3 of patient_model.py)
\* ------------------------------------------------------------------------
\* patient.update(1)
UntreatedMinute ==
    /\ patient.time_since_injury < MaxUntreatedTime
    /\ patient' = PatientUpdate(patient, 1)
    /\ UNCHANGED <<hospital_applied, evars, mvars, bvars, gvars, svars>>

UntreatedNext == UntreatedMinute

UntreatedSpec == PatientSpecInit /\ [][UntreatedNext]_vars

\* ------------------------------------------------------------------------
\* A caller of the baseline policies: a state dict and calls of the five
\* policies on it
\* ------------------------------------------------------------------------
\* positions of the ambulances and of the hospitals of the state, by id
BaselineAmbPos(i) == (4 * i) % 6
BaselineHospPos(h) == 4 * h
BaselineCasPositions == {1, 3}

\* (triage, status, is_alive) of a casualty of a snapshot: a BLACK casualty
\* is WAITING and not alive, any other that died is DECEASED
CasualtyConditions ==
    {<<t, "WAITING", TRUE>> : t \in {"RED", "YELLOW", "GREEN"}}
    \cup {<<"BLACK", "WAITING", FALSE>>, <<"RED", "ASSIGNED", TRUE>>, <<"RED", "DECEASED", FALSE>>}

\* trauma levels of hospitals 0 and 1; 5 is the level of a hospital without one
TraumaLevelMenus == {<<1, 3>>, <<3, 1>>, <<5, 5>>, <<2, 2>>}

BaselineStates ==
    {[ambulances |-> [i \in 1..MaxPolicyAmbs |->
                         [id |-> i - 1, pos |-> BaselineAmbPos(i - 1), status |-> st[i]]],
      casualties |-> [i \in 1..MaxPolicyCas |->
                         [id |-> i - 1, pos |-> cp[i], triage |-> cc[i][1],
                          status |-> cc[i][2], is_alive |-> cc[i][3]]],
      hospitals |-> [i \in 1..2 |->
                        [id |-> i - 1, pos |-> BaselineHospPos(i - 1), trauma_level |-> tl[i]]]] :
        st \in [1..MaxPolicyAmbs -> {"IDLE", "MOVING_TO_CASUALTY"}],
        cp \in [1..MaxPolicyCas -> BaselineCasPositions],
        cc \in [1..MaxPolicyCas -> CasualtyConditions],
        tl \in TraumaLevelMenus}

\* what random.choice draws in the iterations of one call: an index of the
\* list of the casualties still waiting, which loses one element an iteration
Draws ==
    {d \in [1..MaxPolicyAmbs -> 0..(MaxPolicyCas - 1)] :
        \A k \in 1..MaxPolicyAmbs : d[k] = 0 \/ d[k] <= MaxPolicyCas - k}
NoDraws == [k \in 1..MaxPolicyAmbs |-> 0]

Returned(policy, draws) ==
    /\ baseline' = [baseline EXCEPT !.policy = policy,
                                    !.result = BaselinePolicy(policy, baseline.state, draws)]
    /\ UNCHANGED <<evars, mvars, pvars, gvars, svars>>

random_policy == \E draws \in Draws : Returned("random", draws)

nearest_hospital_policy == Returned("nearest_hospital", NoDraws)

triage_priority_policy == Returned("triage_priority", NoDraws)

trauma_matching_policy == Returned("trauma_matching", NoDraws)

load_balancing_policy == Returned("load_balancing", NoDraws)

PolicyNext ==
    \/ random_policy
    \/ nearest_hospital_policy
    \/ triage_priority_policy
    \/ trauma_matching_policy
    \/ load_balancing_policy

PolicyInit ==
    /\ engine = EngineInit(MgrScenario)
    /\ pc = "run"
    /\ actions = << >>
    /\ ai = 1
    /\ ManagerInit
    /\ PatientIdle
    /\ gens = << >>
    /\ ServicesIdle
    /\ baseline \in {[state |-> st, policy |-> "none", result |-> << >>] : st \in BaselineStates}

PolicySpec == PolicyInit /\ [][PolicyNext]_vars

\* ------------------------------------------------------------------------
\* ScenarioGenerator (simulator/environment/scenario_generator.py).  A
\* numpy Generator is a state and a deterministic step: every draw returns
\* a value made of the state and advances it.  A generator made without a
\* seed starts in a state taken from the entropy of the system.
\* ------------------------------------------------------------------------
RngMod == 8
RngStates == 0..(RngMod - 1)

\* np.random.default_rng(seed) for an integer seed
default_rng(seed) == seed % RngMod

Advance(s) == (5 * s + 3) % RngMod

\* the values of the next n draws, and the state after them
RECURSIVE Stream(_, _)
Stream(s, n) == IF n = 0 THEN << >> ELSE <<s>> \o Stream(Advance(s), n - 1)

RECURSIVE After(_, _)
After(s, n) == IF n = 0 THEN s ELSE After(Advance(s), n - 1)

\* rng.uniform(lo, hi), rng.normal(center, sigma), rng.integers(lo, hi) and
\* one element of rng.choice(triage_levels, p=triage_probabilities), each as
\* a function of the value drawn
Uniform(lo, hi, out) == lo + (out % (hi - lo))
Normal(center, out) == center + (out % 3) - 1
\* variant: the upper end of rng.integers is included
Integers_inclusive(lo, hi, out) == lo + (out % (hi - lo + 1))

Integers(lo, hi, out) == lo + (out % (hi - lo))
TriageChoice(out) ==
    IF out < 2 THEN "RED" ELSE IF out < 5 THEN "YELLOW" ELSE IF out < 7 THEN "GREEN" ELSE "BLACK"

\* the hospitals and the region bounds every generator is constructed with
GenHospitals == <<[id |-> 0, lat |-> 0, lon |-> 0], [id |-> 1, lat |-> 4, lon |-> 2]>>
region_bounds == <<0, 4, 0, 4>>

\* ScenarioGenerator.__init__ with an integer seed
NewGenerator(seed) == [seed |-> seed, rng |-> default_rng(seed), returned |-> << >>]

\* ScenarioGenerator.__init__ without a seed: the state is any state
NewUnseededGenerator(entropy) == [seed |-> None, rng |-> entropy, returned |-> << >>]

\* _generate_casualties, given the draws it makes: the choice of the triage
\* levels first, then a latitude and a longitude for each casualty
RECURSIVE CasualtyList(_, _, _, _, _)
CasualtyList(num_casualties, center_lat, center_lon, d, i) ==
    IF i = num_casualties THEN << >>
    ELSE <<[id |-> i,
            lat |-> Normal(center_lat, d[num_casualties + 2 * i + 1]),
            lon |-> Normal(center_lon, d[num_casualties + 2 * i + 2]),
            triage |-> TriageChoice(d[i + 1]),
            initial_health |-> One]>>
         \o CasualtyList(num_casualties, center_lat, center_lon, d, i + 1)

\* the number of draws generate_scenario makes on self.rng
ScenarioDraws(args) == 2 + 3 * args.num_casualties + (IF args.seed = None THEN 1 ELSE 0)

\* the scenario generate_scenario returns from the state s of self.rng
Scenario(s, args) ==
    LET d == Stream(s, ScenarioDraws(args))
        n == args.num_casualties
        incident_lat == Uniform(region_bounds[1], region_bounds[2], d[1])
        incident_lon == Uniform(region_bounds[3], region_bounds[4], d[2])
    IN [incident_location |-> <<incident_lat, incident_lon>>,
        casualties |-> CasualtyList(n, incident_lat, incident_lon, SubSeq(d, 3, 2 + 3 * n), 0),
        ambulance_config |->
            [ambulances_per_hospital |-> args.ambulances_per_hospital,
             ambulances_per_hospital_variation |-> args.ambulances_per_hospital_variation,
             field_ambulances |-> args.field_ambulances,
             seed |-> IF args.seed # None THEN args.seed
                      ELSE Integers(0, RngMod, d[3 + 3 * n])],
        hospitals |-> GenHospitals,
        num_casualties |-> n]

\* variant: spawn_ambulances draws from the generator's own rng
SpawnRng_shared(g, ambulance_config) == g.rng

\* rng = np.random.default_rng(ambulance_config['seed'])
SpawnRng(g, ambulance_config) == default_rng(ambulance_config.seed)

Max(a, b) == IF a > b THEN a ELSE b

\* the hospital-based ambulances: the list, the next id and the state of rng
RECURSIVE HospitalAmbulances(_, _, _, _, _)
HospitalAmbulances(hospitals, ambulance_config, s, ambulance_id, i) ==
    IF i > Len(hospitals) THEN [ambulances |-> << >>, ambulance_id |-> ambulance_id, rng |-> s]
    ELSE LET variation_range == ambulance_config.ambulances_per_hospital_variation
             num_hospital_ambulances ==
                 IF variation_range > 0
                 THEN Max(0, ambulance_config.ambulances_per_hospital
                                + Integers(-variation_range, variation_range + 1, s))
                 ELSE ambulance_config.ambulances_per_hospital
             s1 == IF variation_range > 0 THEN Advance(s) ELSE s
             rest == HospitalAmbulances(hospitals, ambulance_config, s1,
                                        ambulance_id + num_hospital_ambulances, i + 1)
         IN [rest EXCEPT !.ambulances =
                [k \in 1..num_hospital_ambulances |->
                    [id |-> ambulance_id + k - 1, lat |-> hospitals[i].lat,
                     lon |-> hospitals[i].lon, status |-> "IDLE",
                     base_hospital_id |-> hospitals[i].id, type |-> "HOSPITAL_BASED"]] \o @]

\* the field ambulances: a radius and an angle are drawn for each
RECURSIVE FieldAmbulances(_, _, _, _, _)
FieldAmbulances(incident_location, s, ambulance_id, left, radius) ==
    IF left = 0 THEN << >>
    ELSE LET r == s % (radius + 1)
             theta == Advance(s)
         IN <<[id |-> ambulance_id,
               lat |-> incident_location[1] + r * ((theta % 3) - 1),
               lon |-> incident_location[2] + r * (((theta \div 3) % 3) - 1),
               status |-> "IDLE", base_hospital_id |-> None, type |-> "FIELD_UNIT"]>>
            \o FieldAmbulances(incident_location, Advance(theta), ambulance_id + 1, left - 1, radius)

\* the list spawn_ambulances returns when called on generator g
spawn_ambulances(g, incident_location, ambulance_config, hospitals) ==
    LET based == HospitalAmbulances(hospitals, ambulance_config,
                                    SpawnRng(g, ambulance_config), 0, 1)
    IN based.ambulances
       \o FieldAmbulances(incident_location, based.rng, based.ambulance_id,
                          ambulance_config.field_ambulances, 1)

\* ------------------------------------------------------------------------
\* Two ScenarioGenerator objects and a caller of generate_scenario and
\* spawn_ambulances
\* ------------------------------------------------------------------------
GenIds == 1..2
GenSeeds == {1, 2}

\* the arguments of generate_scenario
ScenarioArgs ==
    {[num_casualties |-> n, ambulances_per_hospital |-> 1,
      ambulances_per_hospital_variation |-> vs[1], field_ambulances |-> 1, seed |-> vs[2]] :
        n \in {1, 2}, vs \in {<<1, None>>, <<0, 1>>}}
    \cup {[num_casualties |-> 1, ambulances_per_hospital |-> 0,
           ambulances_per_hospital_variation |-> 1, field_ambulances |-> 2, seed |-> 1]}

\* the calls made so far on all generators
GenCallsMade == Len(gens[1].returned) + Len(gens[2].returned)

\* scenario = generator.generate_scenario(...)
CallGenerateScenario(g, args) ==
    /\ GenCallsMade < MaxGenCalls
    /\ gens' = [gens EXCEPT
                  ![g].rng = After(@, ScenarioDraws(args)),
                  ![g].returned = Append(@, [call |-> "generate_scenario", args |-> args,
                                             value |-> Scenario(gens[g].rng, args)])]
    /\ UNCHANGED <<evars, mvars, pvars, bvars, svars>>

\* generator.spawn_ambulances(scenario['incident_location'],
\* scenario['ambulance_config'], scenario['hospitals']) for a scenario that
\* some generator returned
CallSpawnAmbulances(g, of, n) ==
    /\ GenCallsMade < MaxGenCalls
    /\ n \in 1..Len(gens[of].returned)
    /\ gens[of].returned[n].call = "generate_scenario"
    /\ LET scenario == gens[of].returned[n].value
           args == <<scenario.incident_location, scenario.ambulance_config, scenario.hospitals>>
       IN gens' = [gens EXCEPT
                     ![g].returned = Append(@, [call |-> "spawn_ambulances", args |-> args,
                                                value |-> spawn_ambulances(gens[g], args[1],
                                                                           args[2], args[3])])]
    /\ UNCHANGED <<evars, mvars, pvars, bvars, svars>>

GenNext ==
    \/ \E g \in GenIds, args \in ScenarioArgs : CallGenerateScenario(g, args)
    \/ \E g \in GenIds, of \in GenIds, n \in 1..MaxGenCalls : CallSpawnAmbulances(g, of, n)

GenInit ==
    /\ engine = EngineInit(MgrScenario)
    /\ pc = "run"
    /\ actions = << >>
    /\ ai = 1
    /\ ManagerInit
    /\ PatientIdle
    /\ baseline = [state |-> [ambulances |-> << >>, casualties |-> << >>, hospitals |-> << >>],
                   policy |-> "none", result |-> << >>]
    /\ ServicesIdle
    /\ gens \in [GenIds -> {NewGenerator(seed) : seed \in GenSeeds}
                           \cup {NewUnseededGenerator(entropy) : entropy \in RngStates}]

GenSpec == GenInit /\ [][GenNext]_vars

\* ------------------------------------------------------------------------
\* A long run of the engine, run(MaxLongTime), with a policy that returns
\* an empty dict at every call
\* ------------------------------------------------------------------------
LongTriages ==
    {tri \in [CasIds -> {"RED", "YELLOW", "GREEN", "BLACK"}] :
        tri[0] = "YELLOW" /\ tri[1] \in {"GREEN", "BLACK"}}

\* run(): the test of the while loop, and the end of the run
LongRunTest ==
    /\ UNCHANGED <<mvars, pvars, bvars, gvars, svars>>
    /\ pc = "run"
    /\ IF engine.current_time < MaxLongTime /\ ~is_done(engine)
       THEN /\ pc' = "decay"
            /\ UNCHANGED engine
       ELSE /\ pc' = "done"
            /\ engine' = LogEvent(engine, "SIMULATION_END", None, None, None)
    /\ UNCHANGED <<actions, ai>>

\* step(), phases 4 and 5: the policy returns {} and nothing is executed
StepPolicyWait ==
    /\ UNCHANGED <<mvars, pvars, bvars, gvars, svars>>
    /\ pc = "policy"
    /\ actions' = << >>
    /\ pc' = "metrics"
    /\ ai' = 1
    /\ UNCHANGED engine

LongNext ==
    \/ LongRunTest
    \/ StepDecay
    \/ StepMove
    \/ StepArrive
    \/ StepPolicyWait
    \/ StepMetrics
    \/ RunTick

LongInit ==
    /\ engine \in {EngineInit(tri) : tri \in LongTriages}
    /\ pc = "run"
    /\ actions = << >>
    /\ ai = 1
    /\ ManagerInit
    /\ PatientIdle
    /\ OthersIdle

LongSpec == LongInit /\ [][LongNext]_vars

\* ------------------------------------------------------------------------
\* A run of the engine whose policy is one of the baseline policies, with
\* one or two ambulances
\* ------------------------------------------------------------------------
BaselineNames ==
    {"random", "nearest_hospital", "triage_priority", "trauma_matching", "load_balancing"}

\* trauma level of the hospitals of the scenario
HospTraumaLevel(h) == IF h = 0 THEN 1 ELSE 3

\* the lists of the state dict get_state returns, as the policies read them
PolicyState(E) ==
    LET state == get_state(E) IN
    [ambulances |-> [i \in 1..Cardinality(AmbulanceIds(E)) |->
                        [id |-> state.ambulances[i - 1].id,
                         pos |-> state.ambulances[i - 1].lat,
                         status |-> state.ambulances[i - 1].status]],
     casualties |-> [i \in 1..Cardinality(CasualtyIds(E)) |->
                        [id |-> state.casualties[i - 1].id,
                         pos |-> state.casualties[i - 1].lat,
                         triage |-> state.casualties[i - 1].triage,
                         status |-> state.casualties[i - 1].status,
                         is_alive |-> state.casualties[i - 1].is_alive]],
     hospitals |-> [i \in 1..Cardinality(HospIds) |->
                       [id |-> i - 1, pos |-> HospPos(i - 1),
                        trauma_level |-> HospTraumaLevel(i - 1)]]]

\* a scenario whose ambulance_config has field_ambulances = 0
WithoutFieldUnits(E) ==
    [E EXCEPT !.ambulances = [a \in {b \in AmbIds : E.ambulances[b].type = "HOSPITAL_BASED"} |->
                                 E.ambulances[a]]]

\* step(), phase 4: actions = self.policy(state) for the baseline policy
\* the engine was constructed with
StepPolicyBaseline ==
    /\ UNCHANGED <<mvars, pvars, bvars, gvars, svars>>
    /\ pc = "policy"
    /\ \E draws \in (IF baseline.policy = "random" THEN Draws ELSE {NoDraws}) :
          \E state \in {PolicyState(engine)} :
             \E out \in {BaselinePolicy(baseline.policy, state, draws)} :
                /\ actions' = out
                /\ pc' = IF out = << >> THEN "metrics" ELSE "exec"
    /\ ai' = 1
    /\ UNCHANGED engine

BaselineRunNext ==
    \/ LongRunTest
    \/ StepDecay
    \/ StepMove
    \/ StepArrive
    \/ StepPolicyBaseline
    \/ StepExecute
    \/ StepMetrics
    \/ RunTick

BaselineRunInit ==
    /\ engine \in {EngineInit(tri) : tri \in [CasIds -> Triages]}
                  \cup {WithoutFieldUnits(EngineInit(tri)) : tri \in [CasIds -> Triages]}
    /\ pc = "run"
    /\ actions = << >>
    /\ ai = 1
    /\ ManagerInit
    /\ PatientIdle
    /\ gens = << >>
    /\ ServicesIdle
    /\ baseline \in {[state |-> [ambulances |-> << >>, casualties |-> << >>,
                                 hospitals |-> << >>],
                      policy |-> name, result |-> << >>] : name \in BaselineNames}

\* step() is called again as long as run() has not returned
BaselineRunSpec ==
    BaselineRunInit /\ [][BaselineRunNext]_vars /\ WF_vars(BaselineRunNext)

\* ------------------------------------------------------------------------
\* SimulationManager._load_scenario, called by start_simulation with the
\* scenario_config of the instance.  A list of hospitals is the sequence
\* of the rows of the dataset it was made of; _hospitals_cache is << >>
\* for None and <<list>> for a list.
\* ------------------------------------------------------------------------
\* the rows of datasets/us_hospital_locations.csv, by ID and STATE
HospitalRows ==
    <<[id |-> 0, state |-> "CA"], [id |-> 1, state |-> "NY"], [id |-> 2, state |-> "CA"],
      [id |-> 3, state |-> "TX"]>>

\* load_hospitals(region=region): an empty region selects every row
load_hospitals(region) ==
    IF region = "" THEN HospitalRows
    ELSE SelectSeq(HospitalRows, LAMBDA row : row.state = region)

\* scenario configs; region "absent" is a config without the key
ScenarioConfigs ==
    {[type |-> "random", region |-> r] : r \in {"CA", "NY", "", "absent"}}
    \cup {[type |-> "file", region |-> "absent"]}

\* scenario_config.get('region', 'CA')
ConfigRegion(scenario_config) ==
    IF scenario_config.region = "absent" THEN "CA" ELSE scenario_config.region

\* _hospitals_cache after _load_scenario(scenario_config)
CacheAfter(cache, scenario_config) ==
    IF scenario_config.type = "random" /\ cache = << >>
    THEN <<load_hospitals(ConfigRegion(scenario_config))>>
    ELSE cache

\* the hospitals of the scenario _load_scenario returns; a scenario file
\* holds its own list
LoadedHospitals(cache, scenario_config) ==
    IF scenario_config.type = "file" THEN << >>
    ELSE CacheAfter(cache, scenario_config)[1]

\* start_simulation: scenario = self._load_scenario(instance.scenario_config)
LoadScenario(scenario_config) ==
    /\ Len(loader.returned) < MaxLoads
    /\ loader' = [cache |-> CacheAfter(loader.cache, scenario_config),
                  returned |-> Append(loader.returned,
                                      [config |-> scenario_config,
                                       hospitals |-> LoadedHospitals(loader.cache,
                                                                     scenario_config)])]
    /\ UNCHANGED <<evars, mvars, pvars, bvars, gvars, env, jobs>>

LoadNext == \E scenario_config \in ScenarioConfigs : LoadScenario(scenario_config)

LoadInit ==
    /\ engine = EngineInit(MgrScenario)
    /\ pc = "run"
    /\ actions = << >>
    /\ ai = 1
    /\ ManagerInit
    /\ PatientIdle
    /\ OthersIdle

LoadSpec == LoadInit /\ [][LoadNext]_vars

\* ------------------------------------------------------------------------
\* MCIResponseEnv.  self.simulation_engine is the variable engine, None
\* while pc = "unset"; self._pending_actions is the variable actions.
\* ------------------------------------------------------------------------
\* the calls of env.step of the training loop of one episode
MaxEnvSteps == EnvMaxTime + 1

\* simulation_engine.hospitals: the ids of the hospitals, in list order
EngineHospitals == <<0, 1>>

\* simulation_engine.ambulances: the ids of the ambulances, in list order
AmbulanceList(E) == [i \in 1..Cardinality(AmbulanceIds(E)) |-> i - 1]

\* the rows of action.reshape(-1, 2): (casualty_idx, hospital_idx)
ActionPairs == {<<0, 0>>, <<1, 1>>, <<2, 0>>, <<2, 1>>, <<3, 1>>, <<1, 2>>}

EnvActions == [1..2 -> ActionPairs] \cup [1..1 -> ActionPairs]

\* _parse_action: the items of the dict it returns, in insertion order
_parse_action(E, action) ==
    LET idle_ambulances == SelectSeq(AmbulanceList(E),
                                     LAMBDA a : E.ambulances[a].status = "IDLE")
        n == IF Len(idle_ambulances) < Len(action) THEN Len(idle_ambulances)
             ELSE Len(action)
        Kept(idx) ==
            LET casualty_idx == action[idx][1]
                hospital_idx == action[idx][2]
                casualty_id == casualty_idx - 1
            IN /\ casualty_idx # 0
               /\ ~ (casualty_id >= Cardinality(CasualtyIds(E)))
               /\ ~ (hospital_idx >= Len(EngineHospitals))
               /\ E.casualties[casualty_id].patient.is_alive
               /\ E.casualties[casualty_id].status = "WAITING"
        kept == SelectSeq([idx \in 1..n |-> idx], Kept)
    IN [k \in 1..Len(kept) |->
           <<idle_ambulances[kept[k]],
             Act("DISPATCH_TO_CASUALTY", action[kept[k]][1] - 1,
                 EngineHospitals[action[kept[k]][2] + 1], None)>>]

\* the scenarios reset() generates, by the triage of their casualties
EnvScenarios == [CasIds -> Triages]

\* reset(): a new scenario and a new engine, whose clock is at 0
EnvReset ==
    /\ pc \in {"unset", "env"}
    /\ \E tri \in EnvScenarios : engine' = EngineInit(tri)
    /\ pc' = "env"
    /\ actions' = << >>
    /\ env' = [steps |-> 0, terminated |-> FALSE, truncated |-> FALSE]
    /\ UNCHANGED <<ai, mvars, pvars, bvars, gvars, loader, jobs>>

\* step(action): the engine's step() with the parsed action as what the
\* policy returns; an exception of step() leaves env.step
EnvStep ==
    /\ pc = "env"
    /\ ~ env.terminated
    /\ ~ env.truncated
    /\ env.steps < MaxEnvSteps
    /\ \E action \in EnvActions :
          \E parsed_actions \in {_parse_action(engine, action)} :
             \E E1 \in {step(engine, parsed_actions, FALSE)} :
                /\ actions' = parsed_actions
                /\ engine' = E1
                /\ pc' = IF E1.raised THEN "raised" ELSE "env"
                /\ env' = IF E1.raised THEN [env EXCEPT !.steps = @ + 1]
                          ELSE [steps |-> env.steps + 1,
                                terminated |-> is_done(E1),
                                truncated |-> E1.current_time >= EnvMaxTime]
    /\ UNCHANGED <<ai, mvars, pvars, bvars, gvars, loader, jobs>>

EnvNext == EnvReset \/ EnvStep

EnvInit ==
    /\ engine = EngineInit(MgrScenario)
    /\ pc = "unset"
    /\ actions = << >>
    /\ ai = 1
    /\ ManagerInit
    /\ PatientIdle
    /\ OthersIdle

EnvSpec == EnvInit /\ [][EnvNext]_vars

\* ------------------------------------------------------------------------
\* ProcessManager.  jobs is self.processes in the order of creation; an
\* optional integer is << >> for None and <<n>> for n.  The request
\* threads and the monitor threads take no lock around an instance, so
\* every read and every assignment of theirs is a step of its own.
\* ------------------------------------------------------------------------
JobIds == 1..MaxJobs

TerminalStatuses == {"COMPLETED", "FAILED", "KILLED"}

SIGTERM == 15
SIGKILL == 9

\* ProcessInstance.__init__, with the subprocess and the threads of the job:
\*   process     "none", "alive" or "exited", and its returncode
\*   signals     the signals sent to the subprocess
\*   monitor     the position of _monitor_process, and its local exit_code
\*   kill        the position of a kill_job request
NewJob ==
    [ status |-> "CREATED", exit_code |-> << >>,
      process |-> "none", returncode |-> << >>, signals |-> {},
      monitor |-> "none", monitor_exit_code |-> << >>,
      kill |-> "idle" ]

\* create_job
CreateJob ==
    /\ Len(jobs) < MaxJobs
    /\ jobs' = Append(jobs, NewJob)
    /\ UNCHANGED <<evars, mvars, pvars, bvars, gvars, loader, env>>

\* start_job of a job that is found and CREATED: Popen starts the
\* subprocess and the monitor thread is started, or Popen raises
StartJob(j) ==
    /\ j \in DOMAIN jobs
    /\ jobs[j].status = "CREATED"
    /\ \E popen_raises \in BOOLEAN :
          jobs' = [jobs EXCEPT ![j] =
                     IF popen_raises
                     THEN [@ EXCEPT !.status = "FAILED", !.exit_code = <<-1>>]
                     ELSE [@ EXCEPT !.status = "RUNNING", !.process = "alive",
                                    !.monitor = "wait"]]
    /\ UNCHANGED <<evars, mvars, pvars, bvars, gvars, loader, env>>

\* the returncodes of a subprocess: its own, or minus the signal it died of
ExitCodes(job) == {0, 1} \cup {-sig : sig \in job.signals}

\* the subprocess ends
ProcessExits(j) ==
    /\ j \in DOMAIN jobs
    /\ jobs[j].process = "alive"
    /\ \E code \in ExitCodes(jobs[j]) :
          jobs' = [jobs EXCEPT ![j].process = "exited", ![j].returncode = <<code>>]
    /\ UNCHANGED <<evars, mvars, pvars, bvars, gvars, loader, env>>

\* _monitor_process: exit_code = instance.process.wait() returns
MonitorWait(j) ==
    /\ j \in DOMAIN jobs
    /\ jobs[j].monitor = "wait"
    /\ jobs[j].process = "exited"
    /\ jobs' = [jobs EXCEPT ![j].monitor = "set_exit_code",
                            ![j].monitor_exit_code = jobs[j].returncode]
    /\ UNCHANGED <<evars, mvars, pvars, bvars, gvars, loader, env>>

\* _monitor_process: instance.exit_code = exit_code
MonitorSetExitCode(j) ==
    /\ j \in DOMAIN jobs
    /\ jobs[j].monitor = "set_exit_code"
    /\ jobs' = [jobs EXCEPT ![j].monitor = "set_status",
                            ![j].exit_code = jobs[j].monitor_exit_code]
    /\ UNCHANGED <<evars, mvars, pvars, bvars, gvars, loader, env>>

\* the status _monitor_process assigns
MonitorStatus(job) ==
    IF job.monitor_exit_code = <<0>> THEN "COMPLETED" ELSE "FAILED"

\* _monitor_process: instance.status = COMPLETED or FAILED
MonitorSetStatus(j) ==
    /\ j \in DOMAIN jobs
    /\ jobs[j].monitor = "set_status"
    /\ jobs' = [jobs EXCEPT ![j].monitor = "done",
                            ![j].status = MonitorStatus(jobs[j])]
    /\ UNCHANGED <<evars, mvars, pvars, bvars, gvars, loader, env>>

\* kill_job of a job that is found, RUNNING and has a process:
\* instance.process.terminate(), which signals a subprocess not yet reaped
KillJob(j) ==
    /\ j \in DOMAIN jobs
    /\ jobs[j].kill = "idle"
    /\ jobs[j].status = "RUNNING"
    /\ jobs[j].process # "none"
    /\ jobs' = [jobs EXCEPT ![j].kill = "sleep",
                            ![j].signals = IF jobs[j].process = "alive"
                                           THEN @ \cup {SIGTERM} ELSE @]
    /\ UNCHANGED <<evars, mvars, pvars, bvars, gvars, loader, env>>

\* kill_job after time.sleep(1): if poll() is None: process.kill()
KillPoll(j) ==
    /\ j \in DOMAIN jobs
    /\ jobs[j].kill = "sleep"
    /\ jobs' = [jobs EXCEPT ![j].kill = "set_status",
                            ![j].signals = IF jobs[j].process = "alive"
                                           THEN @ \cup {SIGKILL} ELSE @]
    /\ UNCHANGED <<evars, mvars, pvars, bvars, gvars, loader, env>>

\* kill_job: instance.status = ProcessStatus.KILLED
KillSetStatus(j) ==
    /\ j \in DOMAIN jobs
    /\ jobs[j].kill = "set_status"
    /\ jobs' = [jobs EXCEPT ![j].kill = "set_exit_code", ![j].status = "KILLED"]
    /\ UNCHANGED <<evars, mvars, pvars, bvars, gvars, loader, env>>

\* kill_job: instance.exit_code = -9, and the request returns
KillSetExitCode(j) ==
    /\ j \in DOMAIN jobs
    /\ jobs[j].kill = "set_exit_code"
    /\ jobs' = [jobs EXCEPT ![j].kill = "returned", ![j].exit_code = <<-9>>]
    /\ UNCHANGED <<evars, mvars, pvars, bvars, gvars, loader, env>>

JobNext ==
    \/ CreateJob
    \/ \E j \in JobIds : StartJob(j)
    \/ \E j \in JobIds : ProcessExits(j)
    \/ \E j \in JobIds : MonitorWait(j)
    \/ \E j \in JobIds : MonitorSetExitCode(j)
    \/ \E j \in JobIds : MonitorSetStatus(j)
    \/ \E j \in JobIds : KillJob(j)
    \/ \E j \in JobIds : KillPoll(j)
    \/ \E j \in JobIds : KillSetStatus(j)
    \/ \E j \in JobIds : KillSetExitCode(j)

JobInit ==
    /\ engine = EngineInit(MgrScenario)
    /\ pc = "run"
    /\ actions = << >>
    /\ ai = 1
    /\ ManagerInit
    /\ PatientIdle
    /\ OthersIdle

JobSpec == JobInit /\ [][JobNext]_vars

\* ------------------------------------------------------------------------
\* Properties of the engine
\* ------------------------------------------------------------------------
AcceptEvents == {"DISPATCH", "MOVE_TO_LOCATION", "RETURN_TO_BASE"}

\* number of actions ambulance a accepted in the step of minute t
Accepted(a, t) ==
    Cardinality({i \in 1..Len(engine.event_log) :
                    /\ engine.event_log[i].time = t
                    /\ engine.event_log[i].ambulance_id = a
                    /\ engine.event_log[i].type \in AcceptEvents})

\* C1: no casualty is on board of two ambulances, and no ambulance accepts
\* more than one action in one step, whatever the policy returns.
AmbulanceExclusivity ==
    /\ \A a, b \in AmbIds :
          (a # b /\ engine.ambulances[a].patient_onboard # None)
             => engine.ambulances[a].patient_onboard # engine.ambulances[b].patient_onboard
    /\ \A a \in AmbIds : \A t \in 0..MaxTime : Accepted(a, t) <= 1

\* the policy named one casualty for both ambulances; one of them took it
ConflictingDispatchResolved ==
    /\ pc = "metrics"
    /\ Len(actions) = 2
    /\ \E c \in CasIds :
          /\ \A i \in 1..2 : /\ actions[i][1] \in AmbIds
                             /\ actions[i][2].action_type = "DISPATCH_TO_CASUALTY"
                             /\ actions[i][2].casualty_id = c
          /\ engine.ambulances[actions[1][1]].patient_onboard = c
          /\ engine.ambulances[actions[2][1]].status = "IDLE"

Terminal == {"DELIVERED", "DECEASED"}

\* C2: a DECEASED casualty never becomes ENROUTE or DELIVERED, and a
\* DELIVERED or DECEASED casualty keeps its status, pickup_time and
\* delivery_time.
TerminalCasualtyFrozen ==
    [][\A c \in CasIds :
          /\ engine.casualties[c].status = "DECEASED"
                => engine'.casualties[c].status \notin {"ENROUTE", "DELIVERED"}
          /\ engine.casualties[c].status \in Terminal
                => /\ engine'.casualties[c].status = engine.casualties[c].status
                   /\ engine'.casualties[c].pickup_time = engine.casualties[c].pickup_time
                   /\ engine'.casualties[c].delivery_time = engine.casualties[c].delivery_time
      ]_vars

\* C7: no step() raises because of what the policy returned.
StepNeverRaises == ~engine.raised

\* an item of the returned dict that fails validation in engine state E
FailsValidation(E, item) ==
    LET a == item[1]
        act == item[2]
    IN \/ a \notin AmbIds
       \/ E.ambulances[a].status # "IDLE"
       \/ act.action_type = "WAIT"
       \/ /\ act.action_type = "DISPATCH_TO_CASUALTY"
          /\ \/ act.casualty_id \notin CasIds
             \/ E.casualties[act.casualty_id].status # "WAITING"
       \/ act.action_type = "MOVE_TO_LOCATION" /\ act.target_lat = None
       \/ act.action_type = "RETURN_TO_BASE" /\ E.ambulances[a].base_hospital_id = None

\* C8: executing an action that fails validation changes no ambulance, no
\* casualty, no metric and appends no event.
FailedValidationChangesNothing ==
    [][(pc = "exec" /\ FailsValidation(engine, actions[ai])) => engine' = engine]_vars

\* a RETURN_TO_BASE of the idle field unit has just been skipped
FieldUnitReturnSkipped ==
    /\ pc = "exec"
    /\ ai = 2
    /\ actions[1][1] \in AmbIds
    /\ actions[1][2].action_type = "RETURN_TO_BASE"
    /\ engine.ambulances[actions[1][1]].base_hospital_id = None
    /\ engine.ambulances[actions[1][1]].status = "IDLE"

\* C10: is_done() is true exactly when every casualty's status is DELIVERED
\* or DECEASED.
IsDoneIffAllTerminal ==
    is_done(engine) <=> \A c \in CasIds : engine.casualties[c].status \in Terminal

\* positions inside step()
StepPcs == {"decay", "move", "arrive", "policy", "exec", "metrics"}

\* a variant of run(): the work left before run() returns, counted in
\* steps of the model
RunRank ==
    LET W == 10 + MaxActions
        left == (MaxTime - engine.current_time) * W
    IN CASE pc \in {"done", "raised"} -> 0
         [] pc = "tick" -> left + 1
         [] pc = "metrics" -> left + 2
         [] pc = "exec" -> left + 3 + (Len(actions) - ai)
         [] pc = "policy" -> left + 4 + MaxActions
         [] pc = "arrive" -> left + 5 + MaxActions
         [] pc = "move" -> left + 6 + MaxActions
         [] pc = "decay" -> left + 7 + MaxActions
         [] OTHER -> left + 8 + MaxActions

\* C11: run() terminates (it returns, or a step raises): every step of it
\* decreases the natural number RunRank, and it can take a step until it has
\* returned or raised.  When it returns, is_done() is true or current_time
\* equals max_time_minutes; no phase of step() runs once current_time has
\* reached max_time_minutes, and current_time never exceeds it.
RunTerminates ==
    /\ [](engine.current_time <= MaxTime)
    /\ [](pc \in StepPcs => engine.current_time < MaxTime)
    /\ [](pc = "done" => (is_done(engine) \/ engine.current_time = MaxTime))
    /\ [](RunRank >= 0)
    /\ [][RunRank' < RunRank]_vars
    /\ [](pc \notin {"done", "raised"} => ENABLED EngineNext)

\* run() returned at the time limit with a casualty still waiting
RunEndedAtMaxTime ==
    /\ pc = "done"
    /\ engine.current_time = MaxTime
    /\ ~is_done(engine)
    /\ engine.event_log[Len(engine.event_log)].type = "SIMULATION_END"

Carrying == {"MOVING_TO_CASUALTY", "MOVING_TO_HOSPITAL"}

\* C12: an ambulance has a patient_onboard exactly when its status is
\* MOVING_TO_CASUALTY or MOVING_TO_HOSPITAL, and executing an action changes
\* an ambulance only if its status was IDLE.
OnboardIffCarrying ==
    /\ [](\A a \in AmbIds :
            engine.ambulances[a].patient_onboard # None
               <=> engine.ambulances[a].status \in Carrying)
    /\ [][pc = "exec" =>
            \A a \in AmbIds :
               engine'.ambulances[a] # engine.ambulances[a]
                  => engine.ambulances[a].status = "IDLE"]_vars

\* an ambulance on its way to a casualty was told to fetch another, waiting
\* casualty, and the action has been skipped
BusyAmbulanceKeepsTask ==
    /\ pc \in {"exec", "metrics"}
    /\ ai = 2
    /\ actions[1][1] \in AmbIds
    /\ actions[1][2].action_type = "DISPATCH_TO_CASUALTY"
    /\ actions[1][2].casualty_id \in CasIds
    /\ engine.casualties[actions[1][2].casualty_id].status = "WAITING"
    /\ engine.ambulances[actions[1][1]].status = "MOVING_TO_CASUALTY"
    /\ engine.ambulances[actions[1][1]].patient_onboard # actions[1][2].casualty_id

LegalAmbulanceEdges ==
    { <<"IDLE", "MOVING_TO_CASUALTY">>, <<"MOVING_TO_CASUALTY", "MOVING_TO_HOSPITAL">>,
      <<"MOVING_TO_HOSPITAL", "IDLE">>, <<"IDLE", "MOVING_TO_LOCATION">>,
      <<"MOVING_TO_LOCATION", "IDLE">>, <<"IDLE", "RETURNING_TO_BASE">>,
      <<"RETURNING_TO_BASE", "IDLE">> }

\* C13: every change of an ambulance's status, made by any phase of any
\* step, is one of the seven legal edges.
OnlyLegalAmbulanceEdges ==
    [][\A a \in AmbIds :
          engine'.ambulances[a].status # engine.ambulances[a].status
             => <<engine.ambulances[a].status, engine'.ambulances[a].status>>
                   \in LegalAmbulanceEdges
      ]_vars

EventTypes(E) == {E.event_log[i].type : i \in 1..Len(E.event_log)}

\* one ambulance has delivered a casualty, and an ambulance that was sent
\* to a place has arrived there: all are idle again
AmbulanceCyclesClosed ==
    /\ {"DISPATCH", "PICKUP", "DELIVERY", "REPOSITIONED"} \subseteq EventTypes(engine)
    /\ EventTypes(engine) \cap {"MOVE_TO_LOCATION", "RETURN_TO_BASE"} # {}
    /\ \A a \in AmbIds : engine.ambulances[a].status = "IDLE"

\* C14: the time fields of the event log never decrease along the log, and
\* the log only grows at its end: every step keeps the events already there,
\* in their order and unmodified.
EventLogAppendOnly ==
    /\ [](\A i, j \in 1..Len(engine.event_log) :
            i <= j => engine.event_log[i].time <= engine.event_log[j].time)
    /\ [][/\ Len(engine'.event_log) >= Len(engine.event_log)
          /\ SubSeq(engine'.event_log, 1, Len(engine.event_log)) = engine.event_log
         ]_vars

\* the log holds events of three different minutes, the end of the run last
EventLogSpansMinutes ==
    /\ pc = "done"
    /\ Cardinality({engine.event_log[i].time : i \in 1..Len(engine.event_log)}) >= 3
    /\ engine.event_log[1].time < engine.event_log[Len(engine.event_log)].time

\* ------------------------------------------------------------------------
\* Properties of the manager
\* ------------------------------------------------------------------------
\* C3: a paused instance keeps its engine and does not become COMPLETED.
PauseKeepsInstancePaused ==
    [][\A i \in SimIds :
          simulations[i].status = "PAUSED"
             => /\ simulations'[i].status # "COMPLETED"
                /\ simulations'[i].engine # << >>
      ]_vars

LegalEdges ==
    { <<"CREATED", "RUNNING">>, <<"RUNNING", "PAUSED">>, <<"PAUSED", "RUNNING">>,
      <<"RUNNING", "STOPPED">>, <<"RUNNING", "COMPLETED">>, <<"RUNNING", "ERROR">> }

\* C4: every change of an instance's status is one of the six legal edges.
OnlyLegalStatusEdges ==
    [][\A i \in created :
          simulations'[i].status # simulations[i].status
             => <<simulations[i].status, simulations'[i].status>> \in LegalEdges
      ]_vars

\* C5: start_simulation on an instance that is not CREATED is rejected: the
\* instance is as before and no worker is started.
StartOnlyFromCreated ==
    [][\A id \in SimIds :
          (start_simulation(id) /\ id \in registry /\ simulations[id].status # "CREATED")
             => /\ ~last'.success
                /\ simulations'[id] = simulations[id]
                /\ threads' = threads
      ]_vars

\* C6: pause on an instance that is not RUNNING and resume on one that is
\* not PAUSED return an error and change no instance; every control call on
\* an id that is not registered returns 'Simulation not found' and changes
\* neither the registry nor any instance nor any worker.
RejectedCallsChangeNothing ==
    [][\A id \in SimIds \cup {UnknownSim} :
          /\ (pause_simulation(id) /\ id \in registry
                 /\ simulations[id].status # "RUNNING")
                => (~last'.success /\ last'.error # "" /\ simulations' = simulations)
          /\ (resume_simulation(id) /\ id \in registry
                 /\ simulations[id].status # "PAUSED")
                => (~last'.success /\ last'.error # "" /\ simulations' = simulations)
          /\ (id \notin registry
                 /\ (\/ start_simulation(id) \/ pause_simulation(id)
                     \/ resume_simulation(id) \/ stop_simulation(id)
                     \/ delete_simulation(id)
                     \/ \E speed \in SpeedInputs : set_speed(id, speed)))
                => /\ last' = Result(FALSE, "Simulation not found")
                   /\ UNCHANGED <<simulations, created, registry, threads>>
      ]_vars

\* pause was refused on the only simulation, which is still CREATED
PauseRefusedOnCreated ==
    /\ calls = 2
    /\ registry = {1}
    /\ simulations[1].status = "CREATED"
    /\ last = Result(FALSE, "Simulation is not running")

\* C9: when step() raises in a worker, the handler makes that instance
\* ERROR, records the message and emits the error event; neither the raising
\* step nor the handler touches another instance or another worker.
StepErrorIsContained ==
    [][\A t \in ThreadIds :
          LET i == threads[t].sim IN
          /\ (WorkerStep(t) /\ threads'[t].pc = "except")
                => /\ \A j \in SimIds \ {i} : simulations'[j] = simulations[j]
                   /\ \A u \in ThreadIds \ {t} : threads'[u] = threads[u]
          /\ threads[t].pc = "except" /\ threads'[t] # threads[t]
                => /\ simulations'[i].status = "ERROR"
                   /\ simulations'[i].error_message # ""
                   /\ emitted' = <<"simulation:error", i>>
                   /\ \A j \in SimIds \ {i} : simulations'[j] = simulations[j]
                   /\ \A u \in ThreadIds \ {t} : threads'[u] = threads[u]
      ]_vars

\* one simulation has failed while another one is running with its worker
OneFailedOtherRunning ==
    \E i, j \in SimIds :
        /\ i # j
        /\ simulations[i].status = "ERROR"
        /\ simulations[i].error_message = "step raised"
        /\ emitted = <<"simulation:error", i>>
        /\ simulations[j].status = "RUNNING"
        /\ \E u \in ThreadIds : threads[u].sim = j /\ threads[u].pc = "step"

\* positions of a worker inside the body of the while loop
InLoop == {"check", "step", "tick"}

\* the workers that are inside the loop body for instance i
LoopWorkers(i) == {t \in ThreadIds : threads[t].sim = i /\ threads[t].pc \in InLoop}

\* C15: at most one worker at a time is inside the run loop of an instance.
OneWorkerPerInstance ==
    \A i \in SimIds : Cardinality(LoopWorkers(i)) <= 1

\* C16: once an instance is STOPPED, no step of a worker changes its status:
\* the worker never overwrites STOPPED with COMPLETED or ERROR.
StoppedStaysStopped ==
    [][\A i \in SimIds :
          (simulations[i].status = "STOPPED" /\ calls' = calls)
             => simulations'[i].status = "STOPPED"
      ]_vars

\* C17: a worker calls step() only on an engine that is not done and whose
\* current_time is below max_time, so current_time never exceeds max_time;
\* and an instance becomes COMPLETED only with an engine that is done or has
\* reached max_time.
RunLoopGuarded ==
    /\ [](\A i \in SimIds :
            simulations[i].engine # << >>
               => simulations[i].engine[1].current_time <= max_time)
    /\ [][\A t \in ThreadIds :
            WorkerStep(t)
               => LET E == simulations[threads[t].sim].engine[1]
                  IN ~is_done(E) /\ E.current_time < max_time]_vars
    /\ [][\A i \in SimIds :
            (simulations'[i].status = "COMPLETED" /\ simulations[i].status # "COMPLETED")
               => LET E == simulations[i].engine[1]
                  IN is_done(E) \/ E.current_time >= max_time]_vars

\* ------------------------------------------------------------------------
\* Properties of PatientModel
\* ------------------------------------------------------------------------
\* C18: health lies between 0 and 1 and is 0 exactly when the patient is
\* not alive; a BLACK patient is dead with health 0, and a dead patient
\* never becomes alive.
PatientHealthInRange ==
    /\ [](FLeq(Zero, patient.health) /\ FLeq(patient.health, One))
    /\ []((patient.health = Zero) <=> ~patient.is_alive)
    /\ [](patient.triage = "BLACK" => (~patient.is_alive /\ patient.health = Zero))
    /\ [][~patient.is_alive => ~patient'.is_alive]_vars

\* a RED patient has died of its injury after some treatment
RedPatientDied ==
    /\ patient.triage = "RED"
    /\ ~patient.is_alive
    /\ patient.health = Zero
    /\ patient.time_since_injury > 0
    /\ patient.treatment_status = "ENROUTE"

\* C19: no call of update or apply_treatment increases the health.
HealthNeverIncreases ==
    [][FLeq(patient'.health, patient.health)]_vars

\* a living patient has lost health and has been delivered to the hospital
DeliveredWithLostHealth ==
    /\ patient.is_alive
    /\ FLess(patient.health, One)
    /\ patient.treatment_status = "DELIVERED"
    /\ hospital_applied

\* C20: after apply_treatment('HOSPITAL'), no call changes health or
\* is_alive.
HospitalFreezesHealth ==
    [][hospital_applied
          => /\ patient'.health = patient.health
             /\ patient'.is_alive = patient.is_alive]_vars

\* C21: update is a no-op on a patient that is dead or DELIVERED: no field
\* of the patient changes.
UpdateNoOpWhenDeadOrDelivered ==
    [][\A dt \in DeltaTimes :
          (CallUpdate(dt) /\ (~patient.is_alive \/ patient.treatment_status = "DELIVERED"))
             => patient' = patient
      ]_vars

\* C22: an untreated RED patient updated one minute at a time is alive
\* after each of the first 19 updates and dead, with health 0, after the
\* 20th.
RedDiesAtTwentiethUpdate ==
    /\ []((patient.triage = "RED" /\ patient.time_since_injury <= 19)
             => (patient.is_alive /\ FLess(Zero, patient.health)))
    /\ []((patient.triage = "RED" /\ patient.time_since_injury = 20)
             => (~patient.is_alive /\ patient.health = Zero))

\* the 20th update of an untreated RED patient has been made
RedGotTwentyUpdates ==
    /\ patient.triage = "RED"
    /\ patient.treatment_status = "WAITING"
    /\ patient.time_since_injury = 20

\* C23: an untreated YELLOW patient updated one minute at a time is RED once
\* 250 minutes have been simulated; it is promoted in the update in which its
\* health first drops below 0.5, and a RED patient never becomes YELLOW.
YellowPromotedBy250 ==
    /\ [](patient.time_since_injury >= 250 => patient.triage # "YELLOW")
    /\ [](patient.triage = "YELLOW" => FLeq(Half, patient.health))
    /\ [][(patient.triage = "YELLOW" /\ patient'.triage # "YELLOW")
            => (patient'.triage = "RED" /\ FLess(patient'.health, Half))]_vars
    /\ [][patient.triage = "RED" => patient'.triage = "RED"]_vars

\* a promoted patient after 250 minutes: RED, its health just below 0.5
PromotedAt250 ==
    /\ patient.triage = "RED"
    /\ patient.time_since_injury = 250
    /\ patient.is_alive
    /\ patient.health.m = Half.m
    /\ FLess(patient.health, Half)

\* what update takes from the health of a living patient in dt minutes,
\* by the table of rates (in thousandths per minute)
TableRate(triage, treatment_status) ==
    IF triage = "RED" THEN (IF treatment_status = "WAITING" THEN 50 ELSE 20)
    ELSE IF triage = "YELLOW" THEN (IF treatment_status = "WAITING" THEN 2 ELSE 1)
    ELSE 0

TableHealth(p, dt) ==
    LET rate == TableRate(p.triage, p.treatment_status)
        h == IF rate = 0 THEN p.health ELSE FSub(p.health, FMul(Literal(rate), dt))
    IN IF NonPositive(h) THEN Zero ELSE h

\* C24: update(dt) on a living patient that is not DELIVERED lowers the
\* health by rate * dt in double arithmetic, clamped at 0, with the rate of
\* the table; a GREEN patient keeps health 1.0; and from any health, a RED
\* or YELLOW patient loses strictly less in an ambulance than waiting.
DecayFollowsRateTable ==
    /\ [][\A dt \in DeltaTimes :
            (CallUpdate(dt) /\ patient.is_alive /\ patient.treatment_status # "DELIVERED")
               => patient'.health = TableHealth(patient, dt)]_vars
    /\ [](patient.triage = "GREEN" => patient.health = One)
    /\ []((patient.is_alive /\ patient.triage \in {"RED", "YELLOW"})
             => \A dt \in DeltaTimes \ {0} :
                   FLess(Decayed([patient EXCEPT !.treatment_status = "WAITING"], dt),
                         Decayed([patient EXCEPT !.treatment_status = "ENROUTE"], dt)))

\* a RED patient was picked up after losing health and has lost more since
RedDecayedInAmbulance ==
    /\ patient.triage = "RED"
    /\ patient.treatment_status = "ENROUTE"
    /\ patient.is_alive
    /\ patient.health.m % 50 # 0
    /\ patient.health.m < 900

\* the casualties that are alive and WAITING
WaitingAlive(E) ==
    Cardinality({c \in CasIds : E.casualties[c].status = "WAITING"
                                /\ E.casualties[c].patient.is_alive})

\* the count of casualties_waiting is right whenever a step is over
WaitingCountFresh ==
    [](pc \in {"tick", "raised"} => engine.metrics.casualties_waiting = WaitingAlive(engine))

\* C30: a step that has begun goes through decay, movement, arrivals, one
\* call of the policy, the execution of the returned actions and the
\* refresh of the metrics, in this order, and when it is over
\* casualties_waiting counts the casualties alive and WAITING.
StepRunsSixPhases ==
    /\ [][/\ pc = "decay" => pc' = "move"
          /\ pc = "move" => pc' = "arrive"
          /\ pc = "arrive" => pc' = "policy"
          /\ pc = "policy" => pc' \in {"exec", "metrics"}
          /\ pc = "exec" => pc' \in {"exec", "metrics"}
          /\ pc = "metrics" => pc' = "tick"]_vars
    /\ WaitingCountFresh

\* a speed in the interval (0, 100]
InSpeedRange(x) == x # NaN /\ x > 0 /\ x <= 100

\* C28: set_speed on a registered simulation succeeds and stores the speed
\* if the speed is in (0, 100], and returns an error and leaves the speed
\* as it was otherwise; the speed of every instance is always in (0, 100].
SetSpeedAcceptsRange ==
    /\ [][\A id \in SimIds, speed \in SpeedInputs :
            (set_speed(id, speed) /\ id \in registry)
               => IF InSpeedRange(speed)
                  THEN last'.success /\ simulations'[id].speed = speed
                  ELSE ~last'.success /\ simulations'[id].speed = simulations[id].speed]_vars
    /\ [](\A id \in SimIds : InSpeedRange(simulations[id].speed))

\* ------------------------------------------------------------------------
\* Properties of the scenario generator
\* ------------------------------------------------------------------------
\* what the calls of generate_scenario on generator g returned, in order
GenerateCalls(g) == SelectSeq(gens[g].returned, LAMBDA r : r.call = "generate_scenario")

\* what the calls of spawn_ambulances returned, on any generator
SpawnRecords ==
    UNION {{gens[g].returned[n] : n \in {m \in 1..Len(gens[g].returned) :
                                           gens[g].returned[m].call = "spawn_ambulances"}} :
           g \in GenIds}

\* C29: two generators constructed with the same seed that were asked for
\* the same scenarios so far return the same incident and the same list of
\* casualties when asked for equally many casualties, and two calls of
\* spawn_ambulances with the same arguments return the same list, on
\* whichever generator and after whatever calls they are made.
GenerationDeterministic ==
    /\ \A g1, g2 \in GenIds :
          (gens[g1].seed # None /\ gens[g1].seed = gens[g2].seed)
             => \A k \in 1..Len(GenerateCalls(g1)) :
                   (/\ k <= Len(GenerateCalls(g2))
                    /\ \A j \in 1..(k - 1) :
                          GenerateCalls(g1)[j].args = GenerateCalls(g2)[j].args
                    /\ GenerateCalls(g1)[k].args.num_casualties
                          = GenerateCalls(g2)[k].args.num_casualties)
                      => /\ GenerateCalls(g1)[k].value.casualties
                               = GenerateCalls(g2)[k].value.casualties
                         /\ GenerateCalls(g1)[k].value.incident_location
                               = GenerateCalls(g2)[k].value.incident_location
    /\ \A r1, r2 \in SpawnRecords : r1.args = r2.args => r1.value = r2.value

\* two generators of one seed each returned a scenario, with a seed for the
\* ambulances drawn from their rng, and the second spawned the ambulances
\* of the scenario of the first
TwoGeneratorsAgree ==
    /\ gens[1].seed # None
    /\ gens[1].seed = gens[2].seed
    /\ Len(gens[1].returned) = 1
    /\ Len(gens[2].returned) = 2
    /\ gens[1].returned[1].args.seed = None
    /\ gens[2].returned[1].args = gens[1].returned[1].args
    /\ gens[2].returned[2].call = "spawn_ambulances"
    /\ gens[2].returned[2].args[2] = gens[1].returned[1].value.ambulance_config
    /\ Len(gens[2].returned[2].value) > 1

\* ------------------------------------------------------------------------
\* Properties of the baseline policies
\* ------------------------------------------------------------------------
\* the ambulance, the casualty and the hospital of the i-th item of the
\* returned dict, as records of the state passed in
ItemAmbulance(i) ==
    CHOOSE a \in {baseline.state.ambulances[n] : n \in 1..Len(baseline.state.ambulances)} :
        a.id = baseline.result[i][1]

ItemCasualty(i) ==
    CHOOSE c \in {baseline.state.casualties[n] : n \in 1..Len(baseline.state.casualties)} :
        c.id = baseline.result[i][2].casualty_id

ItemHospital(i) ==
    CHOOSE h \in {baseline.state.hospitals[n] : n \in 1..Len(baseline.state.hospitals)} :
        h.id = baseline.result[i][2].hospital_id

\* the state without the ambulances after the n-th
FirstAmbulances(n) ==
    [baseline.state EXCEPT !.ambulances = SubSeq(baseline.state.ambulances, 1, n)]

IsPrefix(s, t) == Len(s) <= Len(t) /\ s = SubSeq(t, 1, Len(s))

\* C25: whichever of the five policies was called, the dict it returned
\* gives no casualty to two ambulances and one action to an ambulance, names
\* only IDLE ambulances and only casualties WAITING and alive, serves the
\* idle ambulances in the order of the state, and what it gives the first
\* ambulances is what it gives them when the later ones are absent.
BaselineAssignmentsSafe ==
    LET r == baseline.result
        st == baseline.state
        idle == IdleAmbulances(st)
    IN baseline.policy # "none" =>
        /\ \A i, j \in 1..Len(r) :
              i # j => /\ r[i][1] # r[j][1]
                       /\ r[i][2].casualty_id # r[j][2].casualty_id
        /\ \A i \in 1..Len(r) :
              /\ r[i][2].action_type = "DISPATCH_TO_CASUALTY"
              /\ \E n \in 1..Len(st.ambulances) :
                    st.ambulances[n].id = r[i][1] /\ st.ambulances[n].status = "IDLE"
              /\ \E n \in 1..Len(st.casualties) :
                    /\ st.casualties[n].id = r[i][2].casualty_id
                    /\ st.casualties[n].status = "WAITING"
                    /\ st.casualties[n].is_alive
        /\ Len(r) <= Len(idle)
        /\ \A i \in 1..Len(r) : r[i][1] = idle[i].id
        /\ \A n \in 0..Len(st.ambulances) :
              \E draws \in (IF baseline.policy = "random" THEN Draws ELSE {NoDraws}) :
                  IsPrefix(BaselinePolicy(baseline.policy, FirstAmbulances(n), draws), r)

\* random_policy gave the first idle ambulance the last casualty of the
\* state and the second idle ambulance the first
RandomServedTwo ==
    /\ baseline.policy = "random"
    /\ Len(baseline.result) = 2
    /\ baseline.result[1][2].casualty_id > baseline.result[2][2].casualty_id

\* the order of the triage levels a policy is to follow, most urgent first
Urgency(triage) ==
    CHOOSE n \in 1..4 : <<"RED", "YELLOW", "GREEN", "BLACK">>[n] = triage

\* the casualties WAITING and alive that the items before the k-th left
LeftBefore(k) ==
    {c \in {baseline.state.casualties[n] : n \in 1..Len(baseline.state.casualties)} :
        /\ c.status = "WAITING" /\ c.is_alive
        /\ \A j \in 1..(k - 1) : baseline.result[j][2].casualty_id # c.id}

\* C26: after triage_priority_policy, every idle ambulance in turn has the
\* casualty least under (triage level, distance to it) of those left to it,
\* and no casualty the call left unassigned is more urgent than one it
\* assigned.
TriagePriorityMinimal ==
    LET r == baseline.result
        idle == IdleAmbulances(baseline.state)
    IN baseline.policy = "triage_priority" =>
        /\ Len(r) = Len(idle) \/ LeftBefore(Len(r) + 1) = {}
        /\ \A k \in 1..Len(r) :
              /\ r[k][1] = idle[k].id
              /\ ItemCasualty(k) \in LeftBefore(k)
              /\ \A c \in LeftBefore(k) :
                    ~KeyLess(<<Urgency(c.triage), euclidean_distance(idle[k].pos, c.pos)>>,
                             <<Urgency(ItemCasualty(k).triage),
                               euclidean_distance(idle[k].pos, ItemCasualty(k).pos)>>)
              /\ \A c \in LeftBefore(Len(r) + 1) :
                    Urgency(c.triage) >= Urgency(ItemCasualty(k).triage)

\* triage_priority_policy passed over a nearer casualty for a more urgent one
UrgentBeforeNear ==
    /\ baseline.policy = "triage_priority"
    /\ \E k \in 1..Len(baseline.result) : \E c \in LeftBefore(k) :
          /\ euclidean_distance(ItemAmbulance(k).pos, c.pos)
                 < euclidean_distance(ItemAmbulance(k).pos, ItemCasualty(k).pos)
          /\ Urgency(c.triage) > Urgency(ItemCasualty(k).triage)

\* the hospitals appropriate to a casualty
Appropriate(c) ==
    LET all == {baseline.state.hospitals[n] : n \in 1..Len(baseline.state.hospitals)}
        good == CASE c.triage = "RED" -> {h \in all : h.trauma_level \in 1..2}
                  [] c.triage = "YELLOW" -> {h \in all : h.trauma_level \in 2..3}
                  [] OTHER -> all
    IN IF good = {} THEN all ELSE good

\* the assignments to hospital h among the items before the k-th
AssignedBefore(k, h) ==
    Cardinality({j \in 1..(k - 1) : baseline.result[j][2].hospital_id = h.id})

EventCount(event_type) ==
    Cardinality({i \in 1..Len(engine.event_log) : engine.event_log[i].type = event_type})

\* a step is over: it returned to run() or left it with an exception
StepOver == pc \in {"tick", "raised"}

\* the metrics agree with the log and with the casualties
MetricsMatchLog ==
    /\ engine.metrics.deaths = EventCount("DEATH")
    /\ engine.metrics.pickups = EventCount("PICKUP")
    /\ engine.metrics.transported = EventCount("DELIVERY")
    /\ engine.metrics.transported
          = Cardinality({c \in CasIds : engine.casualties[c].status = "DELIVERED"})

\* C31: after every step metrics.deaths is the number of DEATH events,
\* metrics.pickups the number of PICKUP events, and metrics.transported the
\* number of DELIVERY events and of casualties whose status is DELIVERED.
MetricsAgreeWithEvents == StepOver => MetricsMatchLog

\* the same statement for the steps that return
MetricsAgreeAfterReturn == pc = "tick" => MetricsMatchLog

\* the casualties an event of this type was logged for
EventCasualties(event_type) ==
    {engine.event_log[i].casualty_id :
        i \in {j \in 1..Len(engine.event_log) : engine.event_log[j].type = event_type}}

\* C33: after every step deaths + transported is at most total_casualties,
\* and no casualty is counted both as a death and as transported.
OneOutcomePerCasualty ==
    StepOver =>
       /\ engine.metrics.deaths + engine.metrics.transported <= engine.metrics.total_casualties
       /\ EventCasualties("DEATH") \cap EventCasualties("DELIVERY") = {}

\* C34: whatever the policy returns, no casualty that is not alive becomes
\* ASSIGNED or is the subject of a new DISPATCH event.
NoDispatchToDead ==
    [][\A c \in CasIds :
          ~engine.casualties[c].patient.is_alive
             => /\ engine.casualties[c].status # "ASSIGNED"
                      => engine'.casualties[c].status # "ASSIGNED"
                /\ \A i \in (Len(engine.event_log) + 1)..Len(engine'.event_log) :
                      ~(engine'.event_log[i].type = "DISPATCH"
                        /\ engine'.event_log[i].casualty_id = c)
      ]_vars

\* C35: at every call of the policy the triage the state dict reports for
\* a casualty is the current triage of the casualty's PatientModel.
SnapshotTriageCurrent ==
    pc = "policy" =>
       \A c \in CasIds :
          get_state(engine).casualties[c].triage = engine.casualties[c].patient.triage

\* the policy is called in the step in which a YELLOW casualty was promoted
PolicyCalledAfterPromotion ==
    /\ pc = "policy"
    /\ \E c \in CasIds : /\ engine.casualties[c].triage = "YELLOW"
                         /\ engine.casualties[c].patient.triage = "RED"
                         /\ engine.casualties[c].patient.is_alive

\* the positions of the log that hold an event of this type for casualty c
EventsOf(event_type, c) ==
    {i \in 1..Len(engine.event_log) : /\ engine.event_log[i].type = event_type
                                      /\ engine.event_log[i].casualty_id = c}

\* every PICKUP follows a DISPATCH of the same casualty, and every DELIVERY
\* a PICKUP, later in the log and at a strictly later minute
TransportEventsOrdered ==
    \A c \in CasIds :
       /\ \A j \in EventsOf("PICKUP", c) :
             \E i \in EventsOf("DISPATCH", c) :
                /\ i < j
                /\ engine.event_log[i].time < engine.event_log[j].time
       /\ \A k \in EventsOf("DELIVERY", c) :
             \E j \in EventsOf("PICKUP", c) :
                /\ j < k
                /\ engine.event_log[j].time < engine.event_log[k].time

\* in phase 3 an ambulance under way ends its leg exactly if its
\* decremented time_to_target is <= 0
ArrivalsWhenDue ==
    [][pc = "arrive" =>
          \A a \in AmbIds :
             engine.ambulances[a].status \in Moving =>
                (engine.ambulances[a].time_to_target <= 0
                    <=> engine'.ambulances[a].status # engine.ambulances[a].status)
      ]_vars

\* the same statement for the steps in which phase 3 raises nothing
ArrivalsWhenDueUnlessRaised ==
    [][(pc = "arrive" /\ ~engine'.raised) =>
          \A a \in AmbIds :
             engine.ambulances[a].status \in Moving =>
                (engine.ambulances[a].time_to_target <= 0
                    <=> engine'.ambulances[a].status # engine.ambulances[a].status)
      ]_vars

\* C36: the DISPATCH, PICKUP and DELIVERY events of a casualty come in
\* this order with strictly increasing times, also for a travel time of 0
\* or of less than a minute, and an ambulance arrives in the first step in
\* which its decremented time_to_target is <= 0.
TransportInOrder == []TransportEventsOrdered /\ ArrivalsWhenDue

\* a casualty was delivered after two legs of less than one minute each
DeliveredAfterShortLegs ==
    \E c \in CasIds :
       \E i \in EventsOf("DISPATCH", c), j \in EventsOf("PICKUP", c),
          k \in EventsOf("DELIVERY", c) :
          /\ engine.event_log[j].time = engine.event_log[i].time + 1
          /\ engine.event_log[k].time = engine.event_log[j].time + 1

\* ------------------------------------------------------------------------
\* Properties of a run with a baseline policy
\* ------------------------------------------------------------------------
CasualtyAlive(c) == engine.casualties[c].patient.is_alive

\* the run ends because is_done() is true
RunReachesDone == <>(pc = "done" /\ is_done(engine))

\* C37 as stated: the run reaches is_done(), every casualty that is alive
\* and WAITING is eventually ASSIGNED, and the ambulance of every ASSIGNED
\* casualty eventually delivers it and is IDLE again.
BaselineRunServesAll ==
    /\ RunReachesDone
    /\ \A c \in CasIds :
          [](CasualtyAlive(c) /\ engine.casualties[c].status = "WAITING"
                => <>(engine.casualties[c].status = "ASSIGNED"))
    /\ \A c \in CasIds :
          [](engine.casualties[c].status = "ASSIGNED"
                => <>(/\ engine.casualties[c].status = "DELIVERED"
                      /\ engine.ambulances[engine.casualties[c].assigned_ambulance_id].status
                            = "IDLE"))

\* C37, amended: the run reaches is_done(); every casualty that is alive
\* and WAITING is eventually ASSIGNED unless it dies first, and every
\* ASSIGNED casualty is eventually DELIVERED, its ambulance IDLE again,
\* unless it dies first.
BaselineRunCompletes ==
    /\ RunReachesDone
    /\ \A c \in CasIds :
          [](CasualtyAlive(c) /\ engine.casualties[c].status = "WAITING"
                => <>(engine.casualties[c].status = "ASSIGNED" \/ ~CasualtyAlive(c)))
    /\ \A c \in CasIds :
          [](engine.casualties[c].status = "ASSIGNED"
                => <>(\/ ~CasualtyAlive(c)
                      \/ /\ engine.casualties[c].status = "DELIVERED"
                         /\ engine.ambulances[engine.casualties[c].assigned_ambulance_id].status
                               = "IDLE"))

\* one ambulance served both casualties, one after the other, and the run
\* ended with both delivered alive
OneAmbulanceServedBoth ==
    /\ pc = "done"
    /\ is_done(engine)
    /\ AmbulanceIds(engine) = {0}
    /\ \A c \in CasIds : CasualtyAlive(c) /\ engine.casualties[c].status = "DELIVERED"

\* ------------------------------------------------------------------------
\* Properties of _load_scenario
\* ------------------------------------------------------------------------
\* C38: the hospital list of every scenario generated for a random config
\* is the list of the region the config names, whatever regions the
\* earlier calls named.
ScenarioUsesOwnRegion ==
    \A n \in 1..Len(loader.returned) :
       loader.returned[n].config.type = "random"
          => loader.returned[n].hospitals = load_hospitals(ConfigRegion(loader.returned[n].config))

\* two scenarios were generated for two different regions
TwoRegionsLoaded ==
    \E m, n \in 1..Len(loader.returned) :
       /\ m < n
       /\ loader.returned[m].config.type = "random"
       /\ loader.returned[n].config.type = "random"
       /\ ConfigRegion(loader.returned[m].config) # ConfigRegion(loader.returned[n].config)

\* ------------------------------------------------------------------------
\* Properties of MCIResponseEnv
\* ------------------------------------------------------------------------
\* C39: after every env.step the engine's clock shows one minute per step
\* taken, and an episode of max_time_minutes steps has been reported
\* terminated or truncated.
EpisodeEndsWithinMaxTime ==
    pc = "env" =>
       /\ engine.current_time = env.steps
       /\ env.steps >= EnvMaxTime => (env.terminated \/ env.truncated)

\* an episode went on after max_time_minutes steps
EpisodeOverlong ==
    /\ pc = "env"
    /\ env.steps > EnvMaxTime
    /\ \E a \in AmbulanceIds(engine) : engine.ambulances[a].status # "IDLE"

\* ------------------------------------------------------------------------
\* Properties of ProcessManager
\* ------------------------------------------------------------------------
\* a subprocess is started for a job only if the job is CREATED
StartOnlyWhenCreated ==
    [][\A j \in DOMAIN jobs :
          (jobs[j].process = "none" /\ jobs'[j].process # "none")
             => jobs[j].status = "CREATED"]_vars

\* a job that is KILLED stays KILLED
KilledStaysKilled ==
    [][\A j \in DOMAIN jobs :
          jobs[j].status = "KILLED" => jobs'[j].status = "KILLED"]_vars

\* C40: no step changes a status that is COMPLETED, FAILED or KILLED, and
\* a subprocess is started only for a job that is CREATED.
TerminalStatusKept ==
    [][\A j \in DOMAIN jobs :
          /\ jobs[j].status \in TerminalStatuses => jobs'[j].status = jobs[j].status
          /\ (jobs[j].process = "none" /\ jobs'[j].process # "none")
                => jobs[j].status = "CREATED"]_vars

\* kill_job has returned and the monitor has ended with the job FAILED
KilledJobReportedFailed ==
    \E j \in DOMAIN jobs :
       /\ jobs[j].kill = "returned"
       /\ jobs[j].monitor = "done"
       /\ jobs[j].status = "FAILED"

\* ------------------------------------------------------------------------
\* Properties of spawn_ambulances
\* ------------------------------------------------------------------------
\* the positions of list L whose ambulance is based at hospital h
BasedAt(L, h) == {k \in 1..Len(L) : L[k].base_hospital_id = h.id}

\* the position of the hospital of id in the catalog
CatalogIndex(hospitals, id) == CHOOSE i \in 1..Len(hospitals) : hospitals[i].id = id

\* the list L is what the claim says of a call with these arguments
SpawnedAsConfigured(L, ambulance_config, hospitals) ==
    LET base == ambulance_config.ambulances_per_hospital
        variation == ambulance_config.ambulances_per_hospital_variation
        fields == ambulance_config.field_ambulances
        based == Len(L) - fields
    IN /\ based >= 0
       /\ \A k \in 1..Len(L) : L[k].id = k - 1
       /\ \A k \in 1..based :
             /\ L[k].type = "HOSPITAL_BASED"
             /\ \E i \in 1..Len(hospitals) :
                   /\ L[k].base_hospital_id = hospitals[i].id
                   /\ L[k].lat = hospitals[i].lat
                   /\ L[k].lon = hospitals[i].lon
       /\ \A j, k \in 1..based :
             j < k => CatalogIndex(hospitals, L[j].base_hospital_id)
                         <= CatalogIndex(hospitals, L[k].base_hospital_id)
       /\ \A i \in 1..Len(hospitals) :
             /\ Cardinality(BasedAt(L, hospitals[i])) >= Max(0, base - variation)
             /\ Cardinality(BasedAt(L, hospitals[i])) <= base + variation
       /\ \A k \in (based + 1)..Len(L) :
             L[k].type = "FIELD_UNIT" /\ L[k].base_hospital_id = None
       /\ \A k \in 1..Len(L) : L[k].base_hospital_id = None <=> L[k].type = "FIELD_UNIT"

\* C32: spawn_ambulances returns, hospital by hospital in catalog order,
\* between max(0, base - variation) and base + variation HOSPITAL_BASED
\* ambulances standing at the hospital and based at it, then exactly
\* field_ambulances FIELD_UNIT ambulances without a base; the ids are
\* 0..n-1 in list order.
SpawnAmbulancesShape ==
    \A r \in SpawnRecords : SpawnedAsConfigured(r.value, r.args[2], r.args[3])

\* a call with a base of 0 drew a variation of -1, and the count was
\* clamped to 0
SpawnedClamped ==
    \E r \in SpawnRecords :
       /\ r.args[2].ambulances_per_hospital = 0
       /\ r.args[2].ambulances_per_hospital_variation = 1
       /\ Integers(-1, 2, Advance(default_rng(r.args[2].seed))) = -1
       /\ Len(r.value) = r.args[2].field_ambulances

\* a call spawned no ambulance at one hospital, two at another, and a field unit
SpawnedUnevenFleet ==
    \E r \in SpawnRecords :
       /\ r.args[2].ambulances_per_hospital_variation > 0
       /\ \E h1, h2 \in 1..Len(r.args[3]) :
             /\ Cardinality(BasedAt(r.value, r.args[3][h1])) = 0
             /\ Cardinality(BasedAt(r.value, r.args[3][h2])) = 2
       /\ r.value[Len(r.value)].type = "FIELD_UNIT"

Init == EngineStart /\ ManagerInit /\ PatientIdle /\ OthersIdle

Next == EngineNext

Spec == Init /\ [][Next]_vars

====
